---- MODULE Spec2Model ----
(***************************************************************************)
(* Model of tools/scripts/generate_cert_calibrations.py (historical CSV to *)
(* SQL path): the Spanish date extractor, the month arithmetic, the event  *)
(* builder, the SQL emitter and the execution of the emitted script        *)
(* against the tables instrumentos and calibraciones.                      *)
(*                                                                         *)
(* A text (Python str) is a sequence of characters; a character is a       *)
(* one-symbol string, the ten accented vowels being written "Aacute",      *)
(* "eacute", ...  Python's None for a text is the empty sequence wherever  *)
(* the source produces it through normalize_text, which never returns "".  *)
(***************************************************************************)
EXTENDS Integers, Sequences, FiniteSets, TLC

VARIABLES
    pc,             \* position of the modelled run
    cell,           \* extract_date: the text cell given
    parts,          \* extract_date: the pieces the cell was written from
    fecha,          \* extract_date: the value returned
    base_date,      \* add_months: the date given
    months,         \* add_months: the number of months given
    fecha_proxima,  \* add_months: the value returned or the error raised
    csv_rows,       \* iter_events: the rows csv.reader yields
    events,         \* iter_events: the list returned
    lines,          \* build_sql: the list `lines` joined into the script
    empresa_id,     \* the tenant id given to build_sql
    instrumentos,   \* table instrumentos: rows (id, codigo, empresa_id)
    calibraciones,  \* table calibraciones: rows in insertion order
    instrumento_id, \* the session variable @instrumento_id
    stmt,           \* index in `lines` of the next line to execute
    history,        \* calibraciones as it was after each finished execution
    input_exists,   \* main: whether the path args.input exists
    output,         \* main: the path args.output (directory, file, text)
    argv,           \* main: the options given on the command line
    args,           \* main: the namespace parse_args returns
    last_calibration,   \* calculate_next_calibration_date: the date given
    instrument_type,    \* calculate_next_calibration_date: the type given
    frequency_months,   \* calculate_next_calibration_date: the frequency selected
    next_date,          \* calculate_next_calibration_date: date or error
    entry,          \* orchestrator: the method called on the new object
    scripts_exist,  \* orchestrator: for each script, whether its path exists
    python_ok,      \* orchestrator: whether sys.version_info is at least 3.8
    process_results, \* orchestrator: self.process_results, script key to status
    calls,          \* orchestrator: the scripts given to subprocess.run, in order
    reports,        \* orchestrator: the report files written, in order
    success,        \* run_full_client_portal_process: its local success
    gen_success,    \* run_client_generation_process: its local success
    result,         \* orchestrator: the value the method returned
    script_key,     \* run_script: the key of the script to launch
    direct,         \* run_script: whether main called it by the script's name
    backup,         \* orchestrator: self.backup
    self_empresa_id, \* orchestrator: self.empresa_id
    cmd,            \* run_script: the command line after the script path
    child,          \* the launched script: what its parse_args did
    instrumentos_file,          \* audit: normalize_instrumentos.csv
    self_instrumentos,          \* audit: self.instrumentos
    client_instrument_status,   \* audit: self.client_instrument_status
    summary,        \* audit: the summary report file
    audit_files     \* audit: the names of the report files opened for writing

vars == <<pc, cell, parts, fecha, base_date, months, fecha_proxima, csv_rows,
          events, lines, empresa_id, instrumentos, calibraciones,
          instrumento_id, stmt, history, input_exists, output,
          argv, args,
          last_calibration, instrument_type, frequency_months, next_date,
          entry, scripts_exist, python_ok, process_results, calls, reports,
          success, gen_success, result,
          script_key, direct, backup, self_empresa_id, cmd, child,
          instrumentos_file, self_instrumentos, client_instrument_status,
          summary, audit_files>>

\* The variables of calculate_next_calibration_date, of the orchestrator, of
\* the command line of run_script and of the audit report generator.
modern_vars ==
    <<last_calibration, instrument_type, frequency_months, next_date>>

orchestrator_vars ==
    <<entry, scripts_exist, python_ok, process_results, calls, reports,
      success, gen_success, result>>

command_vars ==
    <<script_key, direct, backup, self_empresa_id, cmd, child>>

audit_vars ==
    <<instrumentos_file, self_instrumentos, client_instrument_status, summary,
      audit_files>>

(***************************************************************************)
(* Characters and texts                                                    *)
(***************************************************************************)

\* ord(c) for the characters of the model's alphabet.
CodePoint ==
    (" " :> 32) @@ ("'" :> 39) @@ ("+" :> 43) @@ ("-" :> 45) @@
    ("." :> 46) @@ ("/" :> 47) @@ ("0" :> 48) @@ ("1" :> 49) @@
    ("2" :> 50) @@ ("3" :> 51) @@ ("4" :> 52) @@ ("5" :> 53) @@
    ("6" :> 54) @@ ("7" :> 55) @@ ("8" :> 56) @@ ("9" :> 57) @@
    (":" :> 58) @@ ("A" :> 65) @@ ("B" :> 66) @@ ("C" :> 67) @@
    ("D" :> 68) @@ ("E" :> 69) @@ ("F" :> 70) @@ ("G" :> 71) @@
    ("H" :> 72) @@ ("I" :> 73) @@ ("J" :> 74) @@ ("K" :> 75) @@
    ("L" :> 76) @@ ("M" :> 77) @@ ("N" :> 78) @@ ("O" :> 79) @@
    ("P" :> 80) @@ ("Q" :> 81) @@ ("R" :> 82) @@ ("S" :> 83) @@
    ("T" :> 84) @@ ("U" :> 85) @@ ("V" :> 86) @@ ("W" :> 87) @@
    ("X" :> 88) @@ ("Y" :> 89) @@ ("Z" :> 90) @@ ("_" :> 95) @@
    ("a" :> 97) @@ ("b" :> 98) @@ ("c" :> 99) @@ ("d" :> 100) @@
    ("e" :> 101) @@ ("f" :> 102) @@ ("g" :> 103) @@ ("h" :> 104) @@
    ("i" :> 105) @@ ("j" :> 106) @@ ("k" :> 107) @@ ("l" :> 108) @@
    ("m" :> 109) @@ ("n" :> 110) @@ ("o" :> 111) @@ ("p" :> 112) @@
    ("q" :> 113) @@ ("r" :> 114) @@ ("s" :> 115) @@ ("t" :> 116) @@
    ("u" :> 117) @@ ("v" :> 118) @@ ("w" :> 119) @@ ("x" :> 120) @@
    ("y" :> 121) @@ ("z" :> 122) @@ ("Aacute" :> 193) @@ ("Eacute" :> 201) @@
    ("Iacute" :> 205) @@ ("Oacute" :> 211) @@ ("Uacute" :> 218) @@
    ("aacute" :> 225) @@ ("eacute" :> 233) @@ ("iacute" :> 237) @@
    ("oacute" :> 243) @@ ("uacute" :> 250)

Digits == <<"0", "1", "2", "3", "4", "5", "6", "7", "8", "9">>

IsDigit(c) == \E i \in 1..10 : Digits[i] = c

DigitValue(c) == (CHOOSE i \in 1..10 : Digits[i] = c) - 1

IsSpace(c) == c = " "

IsAsciiLetter(c) ==
    \/ CodePoint[c] >= 65 /\ CodePoint[c] <= 90
    \/ CodePoint[c] >= 97 /\ CodePoint[c] <= 122

AccentedUpper == {"Aacute", "Eacute", "Iacute", "Oacute", "Uacute"}

AccentedLower == {"aacute", "eacute", "iacute", "oacute", "uacute"}

\* str.upper() on one character.
UpperChar(c) ==
    IF CodePoint[c] >= 97 /\ CodePoint[c] <= 122
    THEN CHOOSE u \in DOMAIN CodePoint : CodePoint[u] = CodePoint[c] - 32
    ELSE IF c \in AccentedLower
    THEN CHOOSE u \in AccentedUpper : CodePoint[u] = CodePoint[c] - 32
    ELSE c

\* str.upper()
Upper(s) == [i \in 1..Len(s) |-> UpperChar(s[i])]

\* s[a..b] as a text, empty when a > b.
Slice(s, a, b) == IF a > b THEN <<>> ELSE SubSeq(s, a, b)

\* str.strip(): whitespace removed at both ends.
Strip(s) ==
    LET keep == {i \in 1..Len(s) : ~IsSpace(s[i])}
    IN  IF keep = {} THEN <<>>
        ELSE Slice(s, CHOOSE i \in keep : \A j \in keep : i <= j,
                      CHOOSE i \in keep : \A j \in keep : i >= j)

\* str.replace(c, "") for a single character c.
RECURSIVE RemoveChar(_, _)
RemoveChar(s, c) ==
    IF s = <<>> THEN <<>>
    ELSE IF Head(s) = c THEN RemoveChar(Tail(s), c)
    ELSE <<Head(s)>> \o RemoveChar(Tail(s), c)

\* int() of a text of ASCII digits.
RECURSIVE DigitsToInt(_)
DigitsToInt(s) ==
    IF s = <<>> THEN 0
    ELSE 10 * DigitsToInt(Slice(s, 1, Len(s) - 1)) + DigitValue(s[Len(s)])

\* str() of a natural number.
RECURSIVE NatToText(_)
NatToText(n) ==
    IF n < 10 THEN <<Digits[n + 1]>>
    ELSE NatToText(n \div 10) \o <<Digits[(n % 10) + 1]>>

\* str() of an integer.
IntToText(n) == IF n < 0 THEN <<"-">> \o NatToText(-n) ELSE NatToText(n)

\* The decimal digits of n, zero-padded on the left to `width` characters.
ZeroPad(n, width) ==
    LET t == NatToText(n)
    IN  IF Len(t) >= width THEN t
        ELSE [i \in 1..width |-> IF i <= width - Len(t) THEN "0"
                                 ELSE t[i - (width - Len(t))]]

\* Python's < on str: lexicographic by code point.
RECURSIVE TextLess(_, _)
TextLess(a, b) ==
    IF b = <<>> THEN FALSE
    ELSE IF a = <<>> THEN TRUE
    ELSE IF CodePoint[Head(a)] # CodePoint[Head(b)]
    THEN CodePoint[Head(a)] < CodePoint[Head(b)]
    ELSE TextLess(Tail(a), Tail(b))

(***************************************************************************)
(* Constants of the script                                                 *)
(***************************************************************************)

SPANISH_MONTHS ==
    (<<"E", "N", "E">> :> 1) @@
    (<<"F", "E", "B">> :> 2) @@
    (<<"M", "A", "R">> :> 3) @@
    (<<"A", "B", "R">> :> 4) @@
    (<<"M", "A", "Y">> :> 5) @@
    (<<"J", "U", "N">> :> 6) @@
    (<<"J", "U", "L">> :> 7) @@
    (<<"A", "G", "O">> :> 8) @@
    (<<"S", "E", "P">> :> 9) @@
    (<<"S", "E", "T">> :> 9) @@
    (<<"O", "C", "T">> :> 10) @@
    (<<"N", "O", "V">> :> 11) @@
    (<<"D", "I", "C">> :> 12)

PERIOD_MAP ==
    (<<"P", "E", "R", "I", "O", "D", "O", " ", "1">> :> <<"P", "1">>) @@
    (<<"P", "E", "R", "I", "O", "D", "O", " ", "2">> :> <<"P", "2">>) @@
    (<<"E", "X", "T", "R", "A", "O", "R", "D", "I", "N", "A", "R", "I", "O">>
        :> <<"E", "X", "T", "R", "A">>)

NA_VALUES ==
    { <<>>, <<"N", "A">>, <<"N", "D">>, <<"N", "/", "A">>,
      <<"n", "u", "l", "l">>, <<"N", "U", "L", "L">> }

\* normalize_text: None (the empty text here) for a blank or NA value.
normalize_text(value) ==
    LET clean == Strip(value)
    IN  IF clean \in NA_VALUES THEN <<>> ELSE clean

(***************************************************************************)
(* Dates: datetime.date and calendar                                       *)
(***************************************************************************)

MINYEAR == 1
MAXYEAR == 9999

\* calendar.isleap
isleap(year) == year % 4 = 0 /\ (year % 100 # 0 \/ year % 400 = 0)

\* calendar.mdays
mdays == <<31, 28, 31, 30, 31, 30, 31, 31, 30, 31, 30, 31>>

\* calendar.monthrange(year, month)[1]
_days_in_month(year, month) ==
    mdays[month] + (IF month = 2 /\ isleap(year) THEN 1 ELSE 0)

\* The three outcomes of a call that yields a date: a date, None, or a
\* raised ValueError.
DateValue(y, m, d) == [kind |-> "date", y |-> y, m |-> m, d |-> d]
None == [kind |-> "None", y |-> 0, m |-> 0, d |-> 0]
ValueError == [kind |-> "ValueError", y |-> 0, m |-> 0, d |-> 0]

\* A raised OverflowError, which datetime.date raises for a year that does
\* not fit a C int.
OverflowError == [kind |-> "OverflowError", y |-> 0, m |-> 0, d |-> 0]

\* datetime.date(year, month, day): raises ValueError out of range.
date(year, month, day) ==
    IF /\ year >= MINYEAR /\ year <= MAXYEAR
       /\ month >= 1 /\ month <= 12
       /\ day >= 1 /\ day <= _days_in_month(year, month)
    THEN DateValue(year, month, day)
    ELSE ValueError

(***************************************************************************)
(* extract_date                                                            *)
(***************************************************************************)

\* The character classes of DATE_REGEX:
\*   (\d{1,2})[\-/]([A-Za-z<accented vowels>\.]+)[\-/](\d{2,4})
IsSeparator(c) == c \in {"-", "/"}

IsMonthChar(c) ==
    IsAsciiLetter(c) \/ c \in AccentedUpper \/ c \in AccentedLower \/ c = "."

\* The number of consecutive characters of s from position i on that are in
\* the class given by the set of positions `of`.
RECURSIVE RunLength(_, _, _)
RunLength(s, i, of) ==
    IF i > Len(s) \/ i \notin of THEN 0 ELSE 1 + RunLength(s, i + 1, of)

DigitPositions(s) == {i \in 1..Len(s) : IsDigit(s[i])}

MonthPositions(s) == {i \in 1..Len(s) : IsMonthChar(s[i])}

NoMatch == [matched |-> FALSE, day |-> <<>>, month |-> <<>>, year |-> <<>>]

\* The year group (\d{2,4}) after the separator at position k: greedy, it
\* takes up to four of the ylen digits that follow.
MatchYear(s, day, j, k, ylen) ==
    IF k <= Len(s) /\ IsSeparator(s[k]) /\ ylen >= 2
    THEN [matched |-> TRUE, day |-> day,
          month |-> Slice(s, j + 1, k - 1),
          year |-> Slice(s, k + 1, k + (IF ylen > 4 THEN 4 ELSE ylen))]
    ELSE NoMatch

\* The month group after the separator at position j: greedy, it takes the
\* mlen month characters that follow. A shorter month group is never
\* followed by a separator (the next character is still a month character),
\* so the longest run is the only one the backtracking can accept.
MatchMonth(s, day, j, mlen) ==
    IF j <= Len(s) /\ IsSeparator(s[j]) /\ mlen >= 1
    THEN MatchYear(s, day, j, j + 1 + mlen,
                   RunLength(s, j + 2 + mlen, DigitPositions(s)))
    ELSE NoMatch

\* The rest of DATE_REGEX after a day group ending right before position j:
\* a separator, the month group, a separator, the year group.
MatchRest(s, day, j) ==
    MatchMonth(s, day, j, RunLength(s, j + 1, MonthPositions(s)))

\* The first of two attempts that matched.
FirstMatched(a, b) == IF a.matched THEN a ELSE b

\* DATE_REGEX matched at position i: the day group tries two digits first,
\* then one.
MatchAt(s, i) ==
    IF ~IsDigit(s[i]) THEN NoMatch
    ELSE FirstMatched(IF i + 1 <= Len(s) /\ IsDigit(s[i + 1])
                      THEN MatchRest(s, Slice(s, i, i + 1), i + 2)
                      ELSE NoMatch,
                      MatchRest(s, Slice(s, i, i), i + 1))

\* The match at the leftmost of the positions `starts`.
LeftmostMatch(s, starts) ==
    IF starts = {} THEN NoMatch
    ELSE MatchAt(s, CHOOSE i \in starts : \A j \in starts : i <= j)

\* DATE_REGEX.search(value): the match at the leftmost position that has one.
DATE_REGEX_search(s) ==
    LeftmostMatch(s, {i \in 1..Len(s) : MatchAt(s, i).matched})

\* The five accented capitals replaced by their plain vowels.
PlainVowel(c) ==
    CASE c = "Aacute" -> "A"
      [] c = "Eacute" -> "E"
      [] c = "Iacute" -> "I"
      [] c = "Oacute" -> "O"
      [] c = "Uacute" -> "U"
      [] OTHER -> c

PlainVowels(t) == [i \in 1..Len(t) |-> PlainVowel(t[i])]

\* A variant of MonthKey that keeps the dots of the token.
MonthKey_keeps_dots(month_raw) == PlainVowels(Upper(Strip(month_raw)))

\* month_raw.strip().replace(".", "").upper(), then the accents removed.
MonthKey(month_raw) == PlainVowels(Upper(RemoveChar(Strip(month_raw), ".")))

\* A variant of ExpandYearInt that moves every short year to 20xx.
ExpandYearInt_always_2000(year_int) ==
    IF year_int < 100 THEN year_int + 2000 ELSE year_int

\* year_int after the expansion: a value below 100 is moved to 20xx or 19xx.
ExpandYearInt(year_int) ==
    IF year_int < 100
    THEN year_int + (IF year_int <= 79 THEN 2000 ELSE 1900)
    ELSE year_int

\* The year of the match.
ExpandYear(year_raw) == ExpandYearInt(DigitsToInt(year_raw))

\* A variant of CaughtValueError that lets the error through.
CaughtValueError_uncaught(made) == made

\* try: return dt.date(...) except ValueError: return None
CaughtValueError(made) == IF made = ValueError THEN None ELSE made

\* The date of a match whose month token normalizes to month_key.
DateOfMonthKey(match, month_key) ==
    IF month_key \notin DOMAIN SPANISH_MONTHS THEN None
    ELSE CaughtValueError(date(ExpandYear(match.year),
                               SPANISH_MONTHS[month_key],
                               DigitsToInt(match.day)))

\* The date of the result of DATE_REGEX.search.
DateOfMatch(match) ==
    IF ~match.matched THEN None
    ELSE DateOfMonthKey(match, MonthKey(match.month))

\* extract_date(value): a date or None; the ValueError of datetime.date is
\* caught and turned into None.
extract_date(value) ==
    IF value = <<>> THEN None ELSE DateOfMatch(DATE_REGEX_search(value))

(***************************************************************************)
(* add_months                                                              *)
(***************************************************************************)

\* A variant of ClampedDate that keeps the day of the month as it is.
ClampedDate_unclamped(year, month, day) == date(year, month, day)

\* dt.date(year, month, min(day, _days_in_month(year, month)))
ClampedDate(year, month, day) ==
    date(year, month,
         IF day < _days_in_month(year, month) THEN day
         ELSE _days_in_month(year, month))

\* add_months(base_date, months): the ValueError of datetime.date propagates.
add_months(base, n) ==
    ClampedDate(base.y + (base.m - 1 + n) \div 12,
                ((base.m - 1 + n) % 12) + 1, base.d)

(***************************************************************************)
(* Number parsing: int(text) and int(float(text))                          *)
(***************************************************************************)

\* The outcomes of parsing a number: a value, a caught ValueError, or an
\* OverflowError, which no handler of the script catches.
Parsed(n) == [kind |-> "int", val |-> n]
ParseValueError == [kind |-> "ValueError", val |-> 0]
ParseOverflowError == [kind |-> "OverflowError", val |-> 0]

\* Digits, with single underscores allowed between digits (Python's rule).
IsDigitGroup(t) ==
    /\ t # <<>>
    /\ \A i \in 1..Len(t) : IsDigit(t[i]) \/ t[i] = "_"
    /\ t[1] # "_" /\ t[Len(t)] # "_"
    /\ \A i \in 1..Len(t) - 1 : ~(t[i] = "_" /\ t[i + 1] = "_")

DigitGroupValue(t) == DigitsToInt(RemoveChar(t, "_"))

HasSign(t) == t # <<>> /\ t[1] \in {"+", "-"}

Unsigned(t) == IF HasSign(t) THEN Tail(t) ELSE t

Signed(t, n) == IF t # <<>> /\ t[1] = "-" THEN -n ELSE n

\* int(text) for an already stripped text: an optional sign and digits.
ParseInt(t) ==
    IF IsDigitGroup(Unsigned(t))
    THEN Parsed(Signed(t, DigitGroupValue(Unsigned(t))))
    ELSE ParseValueError

\* str.lower() of a text of ASCII letters, through its upper-case form.
IsWord(t, words) == Upper(t) \in words

\* The largest decimal exponent of a finite double of one digit or more.
FloatMaxExp == 308

\* The least element of a set of positions, 0 for the empty set.
FirstOf(at) == IF at = {} THEN 0 ELSE CHOOSE i \in at : \A j \in at : i <= j

\* The position of the first occurrence of c in t, 0 without one.
IndexOf(t, c) == FirstOf({i \in 1..Len(t) : t[i] = c})

\* The position of the exponent mark of an unsigned float text, 0 without.
ExponentMark(u) ==
    IF IndexOf(u, "e") # 0 THEN IndexOf(u, "e") ELSE IndexOf(u, "E")

\* The largest C int, the bound of the year datetime.date accepts as an
\* argument.
CIntMax == 2147483647

\* The number of digits from which an int is held as a wide int.
WideDigits == 10

\* The number of digits from which an int has more than CIntMax years.
SaturatedDigits == 12

\* A Python int of the frequency cell. Below WideDigits digits it is held by
\* its value. A wider int n is held by its sign, the whole years abs(n) // 12
\* and the months abs(n) % 12, which is all add_months takes from it; every
\* int of CIntMax years or more is held as CIntMax years and no months.
PyInt(n) == [wide |-> FALSE, val |-> n, years |-> 0, months |-> 0]

WideInt(sign, ym) ==
    [wide |-> TRUE, val |-> sign, years |-> ym[1], months |-> ym[2]]

\* The digits without their leading zeros.
RECURSIVE StripZeros(_)
StripZeros(digits) ==
    IF digits # <<>> /\ Head(digits) = "0" THEN StripZeros(Tail(digits))
    ELSE digits

\* The years and months of the number that has q years and t months before
\* the digits `rest` are read.
RECURSIVE YearsAndMonths(_, _, _)
YearsAndMonths(rest, q, t) ==
    IF rest = <<>> THEN <<q, t>>
    ELSE IF q > (CIntMax - 9) \div 10 THEN <<CIntMax, 0>>
    ELSE YearsAndMonths(
             Tail(rest),
             10 * q + (10 * t + DigitValue(Head(rest))) \div 12,
             (10 * t + DigitValue(Head(rest))) % 12)

\* The int of a sign and digits without leading zeros.
IntOfStripped(sign, digits) ==
    IF Len(digits) < WideDigits THEN PyInt(Signed(sign, DigitsToInt(digits)))
    ELSE IF Len(digits) >= SaturatedDigits
    THEN WideInt(Signed(sign, 1), <<CIntMax, 0>>)
    ELSE WideInt(Signed(sign, 1), YearsAndMonths(digits, 0, 0))

IntOfDigits(sign, digits) == IntOfStripped(sign, StripZeros(digits))

\* int(float(...)) of a decimal text given in parts: the sign, the digits
\* before and after the point, and the exponent e. int() truncates toward
\* zero; a value above the largest double becomes an infinity, whose int()
\* raises OverflowError.
IntOfDecimal(sign, whole, frac, e) ==
    IF e = 0 THEN Parsed(IntOfDigits(sign, whole))
    ELSE IF StripZeros(whole) = <<>> /\ StripZeros(frac) = <<>>
    THEN Parsed(PyInt(0))
    ELSE IF e > FloatMaxExp THEN ParseOverflowError
    ELSE IF e < 0
    THEN Parsed(IntOfDigits(sign, Slice(whole, 1, Len(whole) + e)))
    ELSE Parsed(IntOfDigits(sign,
                    whole \o Slice(frac \o [i \in 1..e |-> "0"], 1, e)))

\* The decimal text with its mantissa split at the point.
SplitDecimal(sign, whole, frac, expt) ==
    IF /\ whole = <<>> \/ IsDigitGroup(whole)
       /\ frac = <<>> \/ IsDigitGroup(frac)
       /\ whole # <<>> \/ frac # <<>>
       /\ IsDigitGroup(Unsigned(expt))
    THEN IntOfDecimal(sign, RemoveChar(whole, "_"), RemoveChar(frac, "_"),
                      Signed(expt, DigitGroupValue(Unsigned(expt))))
    ELSE ParseValueError

\* The decimal text with its mantissa and the position of the point in it.
SplitMantissa(sign, mant, dot, expt) ==
    SplitDecimal(sign,
                 IF dot = 0 THEN mant ELSE Slice(mant, 1, dot - 1),
                 IF dot = 0 THEN <<>> ELSE Slice(mant, dot + 1, Len(mant)),
                 expt)

\* The decimal text split into mantissa and exponent.
SplitExponent(sign, mant, expt) ==
    SplitMantissa(sign, mant, IndexOf(mant, "."), expt)

\* The unsigned text u with the position epos of its exponent mark.
ParseDecimal(sign, u, epos) ==
    SplitExponent(sign,
                  IF epos = 0 THEN u ELSE Slice(u, 1, epos - 1),
                  IF epos = 0 THEN <<"0">> ELSE Slice(u, epos + 1, Len(u)))

\* float() of the unsigned text u, then int().
ParseUnsignedFloat(sign, u) ==
    IF IsWord(u, {<<"I", "N", "F">>,
                  <<"I", "N", "F", "I", "N", "I", "T", "Y">>})
    THEN ParseOverflowError
    ELSE IF IsWord(u, {<<"N", "A", "N">>}) THEN ParseValueError
    ELSE ParseDecimal(sign, u, ExponentMark(u))

\* int(float(text)) for a stripped text. float() reads an optional sign and
\* then inf, infinity or nan in any case, or digits with an optional
\* fraction and an optional exponent; int() raises OverflowError for an
\* infinity and ValueError for a NaN.
ParseIntOfFloat(t) == ParseUnsignedFloat(t, Unsigned(t))

(***************************************************************************)
(* iter_events                                                             *)
(***************************************************************************)

base_columns == 9

\* any(cell.strip() for cell in row), the test of _next_relevant_row.
IsRelevantRow(row) == \E i \in 1..Len(row) : Strip(row[i]) # <<>>

\* A variant of _next_relevant_row that returns the next row read, blank or
\* not.
_next_relevant_row_without_skipping(rows, from) ==
    IF from <= Len(rows) THEN from ELSE 0

\* _next_relevant_row on the rows not yet read: the index of the first
\* relevant row from `from` on, 0 when the reader is exhausted
\* (StopIteration).
_next_relevant_row(rows, from) ==
    FirstOf({i \in from..Len(rows) : IsRelevantRow(rows[i])})

\* The tuple appended to period_columns once int(year_value) is known, or
\* nothing when it raised ValueError.
PeriodTuple(idx, period_label, year_int) ==
    IF year_int.kind # "int" THEN <<>>
    ELSE <<[idx |-> idx, periodo |-> PERIOD_MAP[Upper(period_label)],
            periodo_label |-> period_label, year |-> year_int.val]>>

\* A variant of PeriodEntry that does not skip the leading columns.
PeriodEntry_any_index(idx, year_value, period_label) ==
    IF year_value = <<>> \/ period_label = <<>> THEN <<>>
    ELSE IF Upper(period_label) \notin DOMAIN PERIOD_MAP THEN <<>>
    ELSE PeriodTuple(idx, period_label, ParseInt(year_value))

\* One pass of the loop over header_row for the normalized cells.
PeriodEntry(idx, year_value, period_label) ==
    IF idx < base_columns THEN <<>>
    ELSE IF year_value = <<>> \/ period_label = <<>> THEN <<>>
    ELSE IF Upper(period_label) \notin DOMAIN PERIOD_MAP THEN <<>>
    ELSE PeriodTuple(idx, period_label, ParseInt(year_value))

\* What the pass for the 0-based column idx appends to period_columns.
PeriodColumn(year_row, header_row, idx) ==
    PeriodEntry(idx,
                normalize_text(IF idx < Len(year_row)
                               THEN year_row[idx + 1] ELSE <<>>),
                normalize_text(header_row[idx + 1]))

\* period_columns: the resolved columns in ascending index order.
RECURSIVE PeriodColumnsFrom(_, _, _)
PeriodColumnsFrom(year_row, header_row, idx) ==
    IF idx >= Len(header_row) THEN <<>>
    ELSE PeriodColumn(year_row, header_row, idx)
         \o PeriodColumnsFrom(year_row, header_row, idx + 1)

period_columns(year_row, header_row) ==
    PeriodColumnsFrom(year_row, header_row, 0)

\* int(float(frecuencia_raw)) when frecuencia_raw is not empty.
ParseFrecuencia(frecuencia_raw) ==
    IF frecuencia_raw = <<>> THEN ParseValueError
    ELSE ParseIntOfFloat(frecuencia_raw)

\* The frequency of a data row: the parse of column 8, or the row has none.
Frecuencia(row) == ParseFrecuencia(normalize_text(row[9]))

\* frecuencia_meses: the parsed value, or None (the empty set).
FrecuenciaMeses(parsed) == IF parsed.kind = "int" THEN {parsed.val} ELSE {}

\* A variant of SkipsRow that keeps the rows without a code.
SkipsRow_keeps_rows_without_code(row) ==
    \/ \A i \in 1..Len(row) : normalize_text(row[i]) = <<>>
    \/ Len(row) < base_columns

\* Whether the loop body skips the data row before reading its cells.
SkipsRow(row) ==
    \/ \A i \in 1..Len(row) : normalize_text(row[i]) = <<>>
    \/ Len(row) < base_columns
    \/ normalize_text(row[5]) = <<>>

\* The event appended for a cell in which extract_date found `found`.
CellEvent(row, col, found) ==
    IF found = None THEN <<>>
    ELSE <<[codigo |-> normalize_text(row[5]),
            fecha |-> found,
            periodo |-> col.periodo,
            periodo_label |-> col.periodo_label,
            year |-> col.year,
            requerimiento |-> normalize_text(row[8]),
            frecuencia_meses |-> FrecuenciaMeses(Frecuencia(row))]>>

\* The event appended for the normalized cell `celda` of a period column.
CeldaEvent(row, col, celda) ==
    IF celda = <<>> THEN <<>> ELSE CellEvent(row, col, extract_date(celda))

\* The event appended for one period column of a data row.
ColumnEvent(row, col) ==
    IF col.idx >= Len(row) THEN <<>>
    ELSE CeldaEvent(row, col, normalize_text(row[col.idx + 1]))

\* The events one data row appends, in the order of period_columns.
RECURSIVE RowEvents(_, _, _)
RowEvents(row, cols, k) ==
    IF k > Len(cols) THEN <<>>
    ELSE ColumnEvent(row, cols[k]) \o RowEvents(row, cols, k + 1)

\* The list `events` after the loop over the data rows, before sorting.
RECURSIVE AppendedEvents(_, _, _)
AppendedEvents(rows, cols, i) ==
    IF i > Len(rows) THEN <<>>
    ELSE (IF SkipsRow(rows[i]) THEN <<>> ELSE RowEvents(rows[i], cols, 1))
         \o AppendedEvents(rows, cols, i + 1)

\* Whether a processed data row makes int(float(...)) raise OverflowError.
RowOverflows(row) ==
    ~SkipsRow(row) /\ Frecuencia(row).kind = "OverflowError"

\* Python's < on dates.
DateLess(a, b) ==
    \/ a.y < b.y
    \/ a.y = b.y /\ a.m < b.m
    \/ a.y = b.y /\ a.m = b.m /\ a.d < b.d

\* Python's < on the sort key (e.codigo, e.fecha, e.periodo).
KeyLess(a, b) ==
    \/ TextLess(a.codigo, b.codigo)
    \/ a.codigo = b.codigo /\ DateLess(a.fecha, b.fecha)
    \/ a.codigo = b.codigo /\ a.fecha = b.fecha
          /\ TextLess(a.periodo, b.periodo)

\* One insertion of the stable sort: e goes after every element whose key
\* is not greater than its own.
RECURSIVE InsertSorted(_, _)
InsertSorted(sorted_events, e) ==
    IF sorted_events = <<>> THEN <<e>>
    ELSE IF KeyLess(e, Head(sorted_events)) THEN <<e>> \o sorted_events
    ELSE <<Head(sorted_events)>> \o InsertSorted(Tail(sorted_events), e)

\* A variant of sorted that returns the list in the order it was built.
sorted_omitted(evs) == evs

\* sorted(events, key=...): a stable sort by the key.
RECURSIVE sorted(_)
sorted(evs) ==
    IF evs = <<>> THEN <<>>
    ELSE InsertSorted(sorted(Slice(evs, 1, Len(evs) - 1)), evs[Len(evs)])

\* The indexes in `rows` of the year header and of the label header, 0 for
\* a header the reader does not hold.
YearRowIndex(rows) == _next_relevant_row(rows, 1)

HeaderRowAfter(rows, year_index) ==
    IF year_index = 0 THEN 0 ELSE _next_relevant_row(rows, year_index + 1)

HeaderRowIndex(rows) == HeaderRowAfter(rows, YearRowIndex(rows))

\* The rows the loop `for row in reader` reads.
DataRows(rows) == Slice(rows, HeaderRowIndex(rows) + 1, Len(rows))

\* The loop over the data rows and the final sort.
EventsOfRows(data, cols) ==
    IF \E i \in 1..Len(data) : RowOverflows(data[i])
    THEN [error |-> "OverflowError", events |-> <<>>]
    ELSE [error |-> "", events |-> sorted(AppendedEvents(data, cols, 1))]

\* iter_events once both header rows were looked for.
EventsOfFile(rows, year_index, header_index) ==
    IF year_index = 0 \/ header_index = 0
    THEN [error |-> "ValueError", events |-> <<>>]
    ELSE EventsOfRows(Slice(rows, header_index + 1, Len(rows)),
                      period_columns(rows[year_index], rows[header_index]))

\* iter_events on the rows of the file: the error raised, if any, and the
\* list returned.
iter_events(rows) ==
    EventsOfFile(rows, YearRowIndex(rows), HeaderRowIndex(rows))

\* A variant of IterEventsOfPath that reads a missing file as an empty one.
IterEventsOfPath_missing_as_empty(exists, rows) ==
    iter_events(IF exists THEN rows ELSE <<>>)

\* iter_events from its first statement: FileNotFoundError when csv_path
\* does not exist, before anything is read.
IterEventsOfPath(exists, rows) ==
    IF ~exists THEN [error |-> "FileNotFoundError", events |-> <<>>]
    ELSE iter_events(rows)

(***************************************************************************)
(* build_sql                                                               *)
(***************************************************************************)

\* A variant of sql_escape that returns the text as it is.
sql_escape_omitted(value) == value

\* sql_escape: every single quote doubled.
RECURSIVE sql_escape(_)
sql_escape(value) ==
    IF value = <<>> THEN <<>>
    ELSE (IF Head(value) = "'" THEN <<"'", "'">> ELSE <<Head(value)>>)
         \o sql_escape(Tail(value))

\* date.isoformat(): YYYY-MM-DD.
isoformat(d) ==
    ZeroPad(d.y, 4) \o <<"-">> \o ZeroPad(d.m, 2) \o <<"-">> \o ZeroPad(d.d, 2)

SqlNull == <<"N", "U", "L", "L">>

DefaultTipo ==
    <<"C", "a", "l", "i", "b", "r", "a", "c", "i", "oacute", "n", " ",
      "p", "r", "o", "g", "r", "a", "m", "a", "d", "a">>

FuenteText ==
    <<"F", "u", "e", "n", "t", "e", ":", " ", "C", "E", "R", "T", "_", "i",
      "n", "s", "t", "r", "u", "m", "e", "n", "t", "o", "s", "_", "o", "r",
      "i", "g", "i", "n", "a", "l", "_", "v", "2", ".", "c", "s", "v">>

RequerimientoPrefix ==
    <<"R", "e", "q", "u", "e", "r", "i", "m", "i", "e", "n", "t", "o", ":",
      " ">>

\* One entry of the list `lines`: its kind and the values substituted in
\* its template (empty where the template has no such field).
Line(kind, empresa, codigo, tipo, fecha_sql, periodo, proxima_sql, obs) ==
    [kind |-> kind, empresa_id |-> empresa, codigo |-> codigo,
     tipo |-> tipo, fecha |-> fecha_sql, periodo |-> periodo,
     fecha_proxima |-> proxima_sql, observaciones |-> obs]

FixedLine(kind, empresa) ==
    Line(kind, empresa, <<>>, <<>>, <<>>, <<>>, <<>>, <<>>)

\* A variant of CaughtAddMonths that never gives a date.
CaughtAddMonths_never(made) == None

\* try: fecha_proxima = add_months(...) except ValueError: fecha_proxima = None
CaughtAddMonths(made) == IF made = ValueError THEN None ELSE made

\* add_months for a positive wide int: the year is beyond MAXYEAR, so
\* dt.date raises ValueError, or OverflowError when the year does not fit a
\* C int.
AddMonthsWide(base, f) ==
    IF f.years > CIntMax - base.y - (base.m - 1 + f.months) \div 12
    THEN OverflowError
    ELSE ValueError

\* add_months(event.fecha, event.frecuencia_meses)
AddMonthsOfInt(base, f) ==
    IF f.wide THEN AddMonthsWide(base, f) ELSE add_months(base, f.val)

\* A variant of FechaProximaOf without the test of the sign.
FechaProximaOf_without_sign_test(fecha_calibracion, f) ==
    CaughtAddMonths(AddMonthsOfInt(fecha_calibracion, f))

\* fecha_proxima for the frequency f of an event that has one.
FechaProximaOf(fecha_calibracion, f) ==
    IF f.val > 0 THEN CaughtAddMonths(AddMonthsOfInt(fecha_calibracion, f))
    ELSE None

\* fecha_proxima of an event: a date, or None when the event has no
\* positive frequency or add_months raised ValueError; the OverflowError of
\* add_months is not caught.
FechaProxima(event) ==
    IF event.frecuencia_meses = {} THEN None
    ELSE FechaProximaOf(event.fecha,
                        CHOOSE n \in event.frecuencia_meses : TRUE)

\* The quoted ISO date or NULL.
QuotedOrNull(d) ==
    IF d = None THEN SqlNull ELSE <<"'">> \o isoformat(d) \o <<"'">>

\* fecha_proxima_sql
FechaProximaSql(event) == QuotedOrNull(FechaProxima(event))

\* observaciones: the parts joined by ". ", then escaped.
Observaciones(event) ==
    sql_escape(
        (IF event.requerimiento # <<>>
         THEN RequerimientoPrefix \o event.requerimiento \o <<".", " ">>
         ELSE <<>>)
        \o event.periodo_label \o <<" ">> \o IntToText(event.year)
        \o <<".", " ">> \o FuenteText)

Tipo(event) ==
    IF event.requerimiento # <<>> THEN sql_escape(event.requerimiento)
    ELSE DefaultTipo

\* The four entries appended for one event: the SET of @instrumento_id, the
\* INSERT INTO line, the guarded SELECT and an empty line.
EventLines(event, empresa) ==
    << Line("set_instrumento_id", empresa, sql_escape(event.codigo),
            <<>>, <<>>, <<>>, <<>>, <<>>),
       FixedLine("insert_into", empresa),
       Line("select_guarded", empresa, <<>>, Tipo(event),
            isoformat(event.fecha), event.periodo, FechaProximaSql(event),
            Observaciones(event)),
       FixedLine("blank", empresa) >>

RECURSIVE AllEventLines(_, _)
AllEventLines(evs, empresa) ==
    IF evs = <<>> THEN <<>>
    ELSE EventLines(Head(evs), empresa) \o AllEventLines(Tail(evs), empresa)

\* The error build_sql raises, "" when it returns: the OverflowError of
\* add_months leaves the loop over the events.
BuildSqlError(evs) ==
    IF \E k \in 1..Len(evs) : FechaProxima(evs[k]) = OverflowError
    THEN "OverflowError"
    ELSE ""

\* A variant of build_sql without the case of the empty list.
build_sql_without_empty_case(evs, empresa) ==
    << FixedLine("comment_source", empresa),
       FixedLine("comment_empresa", empresa),
       FixedLine("start_transaction", empresa) >>
    \o AllEventLines(evs, empresa)
    \o << FixedLine("commit", empresa), FixedLine("blank", empresa) >>

\* build_sql: the entries of the script; a single comment without events.
build_sql(evs, empresa) ==
    IF evs = <<>> THEN <<FixedLine("comment_no_events", empresa)>>
    ELSE << FixedLine("comment_source", empresa),
            FixedLine("comment_empresa", empresa),
            FixedLine("start_transaction", empresa) >>
         \o AllEventLines(evs, empresa)
         \o << FixedLine("commit", empresa), FixedLine("blank", empresa) >>

(***************************************************************************)
(* Inputs of the date functions                                            *)
(***************************************************************************)

MaxMonths == 25

Abbreviations == DOMAIN SPANISH_MONTHS

\* Month tokens that are not a key of the table as written.
OtherMonthTokens ==
    { <<"e", "n", "e", ".">>, <<"E", "n", "e">>, <<"E", "N", "E", "R", "O">>,
      <<"s", "e", "p", "t", ".">>, <<"X", "Y", "Z">>, <<".">>,
      <<"Eacute", "N", "E">> }

\* Day texts: 0..32 as written without padding, and 00..09.
DayTexts ==
    {NatToText(n) : n \in 0..32} \cup {ZeroPad(n, 2) : n \in 0..9}

TwoDigitYears == {ZeroPad(n, 2) : n \in 0..99}

FourDigitYears ==
    {ZeroPad(n, 4) : n \in {0, 24, 79, 80, 99, 100, 1900, 2023, 2024, 9999}}

ThreeDigitYears == {ZeroPad(n, 3) : n \in {0, 24, 100}}

\* Cells holding exactly one day-month-year token.
PlainCells ==
    [pre : {<<>>}, day : DayTexts, sep1 : {<<"-">>}, mon : Abbreviations,
     sep2 : {<<"-">>}, year : TwoDigitYears \cup FourDigitYears, suf : {<<>>}]

\* Cells with text around the token, other separators, other month tokens
\* and other year widths.
MixedCells ==
    [pre : { <<>>, <<"x", " ">>, <<"1">>,
             <<"3", "1", "-", "F", "E", "B", "-", "2", "4", " ">>,
             <<"5", "-", "X", "Y", "Z", "-", "2", "4", " ">> },
     day : { <<"0">>, <<"1">>, <<"2", "9">>, <<"3", "1">> },
     sep1 : {<<"-">>, <<"/">>},
     mon : OtherMonthTokens \cup
           {<<"E", "N", "E">>, <<"F", "E", "B">>, <<"A", "B", "R">>},
     sep2 : {<<"-">>, <<"/">>, <<" ">>},
     year : ThreeDigitYears \cup
            { <<"2">>, <<"2", "3">>, <<"2", "4">>, <<"0", "0", "0", "0">>,
              <<"2", "0", "2", "4", "5">> },
     suf : { <<>>, <<"x">>, <<" ", "1", "5", "-", "M", "A", "R", "-", "2", "4">> }]

CellOf(p) == p.pre \o p.day \o p.sep1 \o p.mon \o p.sep2 \o p.year \o p.suf

NoParts ==
    [pre |-> <<>>, day |-> <<>>, sep1 |-> <<>>, mon |-> <<>>, sep2 |-> <<>>,
     year |-> <<>>, suf |-> <<>>]

\* Valid dates given to add_months.
BaseDates ==
    {b \in [kind : {"date"}, y : {1900, 2023, 2024, 9998, 9999}, m : 1..12,
            d : {1, 28, 29, 30, 31}] : date(b.y, b.m, b.d) = b}

(***************************************************************************)
(* main: the command line and the choice of mode                           *)
(***************************************************************************)

\* needle in haystack, for texts.
Contains(haystack, needle) ==
    \E i \in 0..(Len(haystack) - Len(needle)) :
        SubSeq(haystack, i + 1, i + Len(needle)) = needle

\* The file name tested by main: 'insert_calibraciones_certificados.sql'.
OutputName ==
    <<"i", "n", "s", "e", "r", "t", "_">>
    \o <<"c", "a", "l", "i", "b", "r", "a", "c", "i", "o", "n", "e", "s", "_">>
    \o <<"c", "e", "r", "t", "i", "f", "i", "c", "a", "d", "o", "s">>
    \o <<".", "s", "q", "l">>

\* The directory of the default of --output, written short.
OutputDirectory == <<"S", "B", "L", "_", "i", "n", "s", "e", "r", "t", "s", "/">>

\* The default of --output: Path(".../SBL_inserts/insert_calibraciones_certificados.sql").
DefaultOutput == OutputDirectory \o OutputName

\* _resolve_cert_path(): the first candidate that exists, else the first
\* candidate; the same path each time it is called in a run, written short.
_resolve_cert_path == <<"C", "E", "R", "T", "_", "v", "2", ".", "c", "s", "v">>

\* An option that was not given is the empty set, one given is {value}.
Argv(empresa, cliente, flag, historical, input, out) ==
    [empresa_id |-> empresa, cliente_id |-> cliente, backup |-> flag,
     historical |-> historical, input |-> input, output |-> out]

\* The value of an option, or its default when it was not given.
OptionOr(given, default) == IF given = {} THEN default ELSE CHOOSE v \in given : TRUE

\* parser.parse_args(argv): --empresa-id defaults to 1, --cliente-id to
\* None, the two flags to False, --input to _resolve_cert_path() and
\* --output to DefaultOutput.
parse_args(given) ==
    [empresa_id |-> OptionOr(given.empresa_id, 1),
     cliente_id |-> given.cliente_id,
     backup |-> given.backup,
     historical |-> given.historical,
     input |-> OptionOr(given.input, _resolve_cert_path),
     output |-> OptionOr(given.output, DefaultOutput)]

\* The test of main: args.historical or args.input != _resolve_cert_path()
\* or 'insert_calibraciones_certificados.sql' in str(args.output).
HistoricalMode(a) ==
    \/ a.historical
    \/ a.input # _resolve_cert_path
    \/ Contains(a.output, OutputName)

\* A command line of the historical mode with nothing else given.
HistoricalArgv == Argv({}, {}, FALSE, TRUE, {}, {})

RestOfArgs ==
    /\ argv = HistoricalArgv
    /\ args = parse_args(HistoricalArgv)

(***************************************************************************)
(* The modern path: calculate_next_calibration_date                        *)
(***************************************************************************)

\* str.lower() on one character.
LowerChar(c) ==
    IF CodePoint[c] >= 65 /\ CodePoint[c] <= 90
    THEN CHOOSE l \in DOMAIN CodePoint : CodePoint[l] = CodePoint[c] + 32
    ELSE IF c \in AccentedUpper
    THEN CHOOSE l \in AccentedLower : CodePoint[l] = CodePoint[c] + 32
    ELSE c

\* str.lower()
Lower(s) == [i \in 1..Len(s) |-> LowerChar(s[i])]

\* The dict calibration_frequencies in its order of insertion, which is the
\* order in which items() yields it.
calibration_frequencies ==
    <<
       <<<<"b", "a", "l", "a", "n", "z", "a">>, 12>>,
       <<<<"b", "a", "l", "a", "n", "z", "a", "_", "a", "n", "a", "l", "i", "t", "i", "c", "a">>, 6>>,
       <<<<"p", "i", "p", "e", "t", "a">>, 12>>,
       <<<<"m", "i", "c", "r", "o", "p", "i", "p", "e", "t", "a">>, 6>>,
       <<<<"t", "e", "r", "m", "o", "m", "e", "t", "r", "o">>, 12>>,
       <<<<"t", "e", "r", "m", "o", "m", "e", "t", "r", "o", "_", "d", "i", "g", "i", "t", "a", "l">>, 6>>,
       <<<<"p", "h", "_", "m", "e", "t", "r", "o">>, 6>>,
       <<<<"m", "e", "d", "i", "d", "o", "r", "_", "p", "h">>, 6>>,
       <<<<"c", "o", "n", "d", "u", "c", "t", "i", "m", "e", "t", "r", "o">>, 12>>,
       <<<<"e", "s", "p", "e", "c", "t", "r", "o", "f", "o", "t", "o", "m", "e", "t", "r", "o">>, 6>>,
       <<<<"a", "u", "t", "o", "c", "l", "a", "v", "e">>, 6>>,
       <<<<"i", "n", "c", "u", "b", "a", "d", "o", "r", "a">>, 12>>,
       <<<<"r", "e", "f", "r", "i", "g", "e", "r", "a", "d", "o", "r">>, 6>>,
       <<<<"c", "o", "n", "g", "e", "l", "a", "d", "o", "r">>, 6>>,
       <<<<"c", "e", "n", "t", "r", "i", "f", "u", "g", "a">>, 12>>,
       <<<<"a", "g", "i", "t", "a", "d", "o", "r">>, 12>>,
       <<<<"c", "r", "o", "n", "o", "m", "e", "t", "r", "o">>, 24>>,
       <<<<"d", "e", "f", "a", "u", "l", "t">>, 12>>
    >>

\* normalized_type where UTILS_AVAILABLE is False, as it is when sbl_utils
\* cannot be imported: instrument_type.lower().strip()
normalized_type(type) == Strip(Lower(type))

\* The test of the loop: instrument_pattern in normalized_type.
PatternMatches(pattern, normalized) == Contains(normalized, pattern)

\* The loop over calibration_frequencies.items(): the months of the first
\* pattern that matches, else calibration_frequencies.get('default').
FrequencyOfNormalized(normalized) ==
    IF \E i \in 1..Len(calibration_frequencies) :
            PatternMatches(calibration_frequencies[i][1], normalized)
    THEN calibration_frequencies[
            FirstOf({i \in 1..Len(calibration_frequencies) :
                        PatternMatches(calibration_frequencies[i][1], normalized)})][2]
    ELSE calibration_frequencies[Len(calibration_frequencies)][2]

\* The days before 1 January of the year, from 1 January of year 1.
_days_before_year(year) ==
    (year - 1) * 365 + (year - 1) \div 4 - (year - 1) \div 100
    + (year - 1) \div 400

\* The days of the year before the first day of the month.
RECURSIVE _days_before_month(_, _)
_days_before_month(year, month) ==
    IF month = 1 THEN 0
    ELSE _days_before_month(year, month - 1) + _days_in_month(year, month - 1)

\* date.toordinal(): 1 January of year 1 is day 1.
toordinal(d) == _days_before_year(d.y) + _days_before_month(d.y, d.m) + d.d

\* date.max.toordinal()
_MAXORDINAL == 3652059

\* The year that holds day n.
YearOfOrdinal(n) ==
    CHOOSE y \in (n \div 366)..(n \div 365 + 1) :
        _days_before_year(y) < n /\ n <= _days_before_year(y + 1)

\* The month of the year that holds the day-of-year n.
MonthOfYearDay(year, n) ==
    CHOOSE m \in 1..12 :
        /\ _days_before_month(year, m) < n
        /\ n <= _days_before_month(year, m) + _days_in_month(year, m)

\* The date of day-of-year n.
DateOfYearDay(year, month, n) ==
    DateValue(year, month, n - _days_before_month(year, month))

\* The date of day n - _days_before_year(year) of the year.
DateInYear(year, n) == DateOfYearDay(year, MonthOfYearDay(year, n), n)

\* date.fromordinal(n)
fromordinal(n) == DateInYear(YearOfOrdinal(n), n - _days_before_year(YearOfOrdinal(n)))

\* last_calibration + dt.timedelta(days=days): OverflowError when the result
\* is not a day of the years 1 to 9999.
DatePlusDays(d, days) ==
    IF toordinal(d) + days > 0 /\ toordinal(d) + days <= _MAXORDINAL
    THEN fromordinal(toordinal(d) + days)
    ELSE OverflowError

\* try: last_calibration.replace(...) except ValueError: last_calibration +
\* dt.timedelta(days=frequency_months * 30)
FallbackDate(made, last, months_) ==
    IF made = ValueError THEN DatePlusDays(last, months_ * 30) ELSE made

\* The date computed from the frequency selected: replace(year=..., month=...)
\* keeps the day and raises ValueError when the date does not exist.
NextDateOf(last, months_) ==
    FallbackDate(date(last.y + (last.m + months_ - 1) \div 12,
                      ((last.m + months_ - 1) % 12) + 1, last.d),
                 last, months_)

\* calculate_next_calibration_date(last_calibration, instrument_type)
calculate_next_calibration_date(last, type) ==
    NextDateOf(last, FrequencyOfNormalized(normalized_type(type)))

\* The value of next_date and frequency_months before a call.
RestOfModern ==
    /\ last_calibration = None
    /\ instrument_type = <<>>
    /\ frequency_months = 0
    /\ next_date = None

(***************************************************************************)
(* run_all_processes.py: SBLClientPortalOrchestrator                       *)
(***************************************************************************)

\* The keys of self.available_scripts.
ScriptKeys ==
    {"setup_environment", "validate_client_data", "client_audit_report",
     "generate_cert_calibrations", "generate_insert_instrumentos",
     "generate_plan_riesgos"}

\* What subprocess.run(cmd, check=True) does in run_script: it returns
\* ("success"), raises CalledProcessError for a non-zero exit status
\* ("error"), or raises another exception ("exception").
Outcomes == {"success", "error", "exception"}

\* self.process_results of a new orchestrator: no key.
NoResults == [k \in ScriptKeys |-> "absent"]

\* A variant of run_script_returned for which every script is required.
run_script_returned_all_required(required, exists, outcome) ==
    exists /\ outcome = "success"

\* The value run_script returns: for a missing script and for a failed one,
\* False when required and True when not.
run_script_returned(required, exists, outcome) ==
    IF exists /\ outcome = "success" THEN TRUE ELSE ~required

\* self.process_results after run_script: the status is recorded once
\* subprocess.run was called, nothing is recorded for a missing script.
run_script_recorded(results, key, exists, outcome) ==
    IF exists THEN [results EXCEPT ![key] = outcome] ELSE results

\* The list of calls of subprocess.run after run_script.
run_script_called(called, key, exists) ==
    IF exists THEN Append(called, key) ELSE called

\* The scripts analyze_client_service_readiness counts as critical.
CriticalScripts ==
    {"validate_client_data", "generate_cert_calibrations",
     "client_audit_report"}

\* readiness['critical_processes']
critical_processes(results) ==
    Cardinality({k \in CriticalScripts : results[k] \in {"error", "exception"}})

\* readiness['warning_processes']
warning_processes(results) ==
    Cardinality({k \in ScriptKeys \ CriticalScripts :
                    results[k] \in {"error", "exception"}})

\* readiness['overall_status'] of analyze_client_service_readiness.
overall_status(results) ==
    IF critical_processes(results) = 0
    THEN IF warning_processes(results) = 0 THEN "ready"
         ELSE "ready_with_warnings"
    ELSE "not_ready"

\* A variant of check_prerequisites that does not look for the scripts.
check_prerequisites_without_scripts(version_ok, exist) == version_ok

\* check_prerequisites: False for a Python below 3.8 and when a script of
\* available_scripts is missing; missing directories are created and
\* missing configuration files only logged.
check_prerequisites(version_ok, exist) ==
    version_ok /\ \A k \in ScriptKeys : exist[k]

\* The orchestrator before a method is called.
RestOfOrchestrator ==
    /\ entry = "none"
    /\ scripts_exist = [k \in ScriptKeys |-> TRUE]
    /\ python_ok = TRUE
    /\ process_results = NoResults
    /\ calls = <<>>
    /\ reports = <<>>
    /\ success = TRUE
    /\ gen_success = TRUE
    /\ result = "none"

(***************************************************************************)
(* run_script: the command line, and the argument parsers of the scripts   *)
(***************************************************************************)

\* The args the orchestrator gives to run_script: run_setup_process gives
\* ['--dev'] and run_client_validation_process ['--backup'] when self.backup
\* is set, the other methods give []; main, called with the name of a
\* script, gives none.
CallerArgs(key, by_name, with_backup) ==
    IF by_name THEN <<>>
    ELSE IF key = "setup_environment" /\ with_backup THEN <<"--dev">>
    ELSE IF key = "validate_client_data" /\ with_backup THEN <<"--backup">>
    ELSE <<>>

\* cmd of run_script after [sys.executable, str(script_path)]: the args,
\* then for every script but setup_environment '--empresa-id' and
\* str(self.empresa_id) unless the args hold '--empresa-id'.
BuildCmd(key, given, empresa) ==
    IF key # "setup_environment"
       /\ ~\E i \in 1..Len(given) : given[i] = "--empresa-id"
    THEN given \o <<"--empresa-id", ToString(empresa)>>
    ELSE given

\* The options the scripts declare with add_argument, with the number of
\* values each takes: data_validator.py, audit_report_generator.py and
\* generate_cert_calibrations.py. The other three scripts are not among the
\* sources.
DeclaredOptions ==
    [validate_client_data |-> ("--output" :> 1),
     client_audit_report |-> ("--empresa-id" :> 1) @@ ("--output" :> 1),
     generate_cert_calibrations |->
        ("--empresa-id" :> 1) @@ ("--cliente-id" :> 1) @@ ("--backup" :> 0)
        @@ ("--historical" :> 0) @@ ("--input" :> 1) @@ ("--output" :> 1)]

\* The tokens of a command line that argparse reads as options.
OptionTokens ==
    {"--dev", "--backup", "--empresa-id", "--cliente-id", "--historical",
     "--input", "--output"}

\* parser.parse_args(tokens) for a parser without positionals: each token
\* must be a declared option followed by its values; anything else ends the
\* script with "unrecognized arguments" and status 2.
RECURSIVE ParserAccepts(_, _)
ParserAccepts(declared, tokens) ==
    IF tokens = <<>> THEN TRUE
    ELSE IF Head(tokens) \notin DOMAIN declared THEN FALSE
    ELSE IF Len(tokens) - 1 < declared[Head(tokens)] THEN FALSE
    ELSE /\ \A i \in 2..(1 + declared[Head(tokens)]) :
                tokens[i] \notin OptionTokens
         /\ ParserAccepts(declared,
                          SubSeq(tokens, 2 + declared[Head(tokens)],
                                 Len(tokens)))

\* What the launched script does with its command line: a script of the
\* sources accepts it or exits with status 2; of the other scripts either
\* is possible.
ChildOutcomes(key, tokens) ==
    IF key \notin DOMAIN DeclaredOptions THEN {"accepted", "exit_2"}
    ELSE IF ParserAccepts(DeclaredOptions[key], tokens) THEN {"accepted"}
    ELSE {"exit_2"}

\* No command line is being built.
RestOfCommand ==
    /\ script_key = "none"
    /\ direct = FALSE
    /\ backup = FALSE
    /\ self_empresa_id = 1
    /\ cmd = <<>>
    /\ child = "none"

(***************************************************************************)
(* audit_report_generator.py: ClientAuditReportGenerator                   *)
(***************************************************************************)

\* client_mapping of get_client_name: the known prefixes and their clients.
client_mapping ==
    <<<<<<"S", "B", "L">>, <<"S", "B", "L", " ", "L", "a", "b", "o", "r", "a", "t", "o", "r", "i", "o", "s">>>>,
      <<<<"L", "A", "B">>, <<"L", "a", "b", "o", "r", "a", "t", "o", "r", "i", "o", " ", "E", "x", "t", "e", "r", "n", "o">>>>,
      <<<<"C", "L", "I">>, <<"C", "l", "i", "e", "n", "t", "e", " ", "G", "e", "n", "e", "r", "a", "l">>>>,
      <<<<"E", "X", "T">>, <<"S", "e", "r", "v", "i", "c", "i", "o", " ", "E", "x", "t", "e", "r", "n", "o">>>>,
      <<<<"I", "N", "T">>, <<"I", "n", "t", "e", "r", "n", "o">>>>>>

\* The prefix of a code: the part before the first '-', or else the first
\* three characters.
CodePrefix(codigo_upper) ==
    IF IndexOf(codigo_upper, "-") # 0
    THEN Slice(codigo_upper, 1, IndexOf(codigo_upper, "-") - 1)
    ELSE Slice(codigo_upper, 1, IF Len(codigo_upper) < 3 THEN Len(codigo_upper) ELSE 3)

\* client_mapping.get(prefix, f'Cliente_{prefix}')
ClientOfPrefix(prefix) ==
    IF \E i \in 1..Len(client_mapping) : client_mapping[i][1] = prefix
    THEN client_mapping[CHOOSE i \in 1..Len(client_mapping) :
                            client_mapping[i][1] = prefix][2]
    ELSE <<"C", "l", "i", "e", "n", "t", "e", "_">> \o prefix

\* get_client_name when self.clientes is empty.
get_client_name(codigo_instrumento) ==
    ClientOfPrefix(CodePrefix(Upper(codigo_instrumento)))

\* load_data, instruments: the rows of normalize_instrumentos.csv when the
\* file exists, else self.instrumentos stays empty and a warning is logged.
load_data(file) == IF file.exists THEN file.rows ELSE <<>>

\* analyze_client_instrument_status: one status per instrument with a code,
\* in order; the compliance state is what the calibration data and the date
\* of the day give for the instrument.
RECURSIVE analyze_client_instrument_status(_)
analyze_client_instrument_status(rows) ==
    IF rows = <<>> THEN <<>>
    ELSE (IF Head(rows).codigo = <<>> THEN <<>>
          ELSE <<[codigo |-> Head(rows).codigo,
                  cliente |-> get_client_name(Head(rows).codigo),
                  estado_cumplimiento |-> Head(rows).estado]>>)
         \o analyze_client_instrument_status(Tail(rows))

\* The number of statuses of a client with one of the states.
CountOf(statuses, cliente, estados) ==
    Cardinality({i \in 1..Len(statuses) :
                    /\ statuses[i].cliente = cliente
                    /\ statuses[i].estado_cumplimiento \in estados})

AllStates == {"AL_DIA", "VENCIDO", "PROXIMO_VENCER", "SIN_DATOS"}

\* calculate_client_metrics: for each client with a status, its counts.
calculate_client_metrics(statuses) ==
    [c \in {statuses[i].cliente : i \in 1..Len(statuses)} |->
        [total_instrumentos |-> CountOf(statuses, c, AllStates),
         instrumentos_al_dia |-> CountOf(statuses, c, {"AL_DIA"}),
         instrumentos_vencidos |-> CountOf(statuses, c, {"VENCIDO"})]]

\* The sum and the product of f over the members of S.
RECURSIVE SumOf(_, _)
SumOf(f, S) ==
    IF S = {} THEN 0
    ELSE f[CHOOSE c \in S : TRUE] + SumOf(f, S \ {CHOOSE c \in S : TRUE})

RECURSIVE ProductOf(_, _)
ProductOf(f, S) ==
    IF S = {} THEN 1
    ELSE f[CHOOSE c \in S : TRUE] * ProductOf(f, S \ {CHOOSE c \in S : TRUE})

\* sum(m.porcentaje_cumplimiento ...) as a fraction over the product of the
\* totals: the numerator and the product.
PercentSum(metrics, totals) ==
    <<SumOf([c \in DOMAIN metrics |->
                100 * metrics[c].instrumentos_al_dia
                * (totals \div metrics[c].total_instrumentos)],
            DOMAIN metrics),
      totals>>

\* The file before anything is written.
NoSummary ==
    [written |-> FALSE, total_clientes |-> 0, total_instrumentos |-> 0,
     total_vencidos |-> 0, complete |-> FALSE, promedio |-> <<0, 1>>,
     detalle |-> {}, prioritarios |-> {}]

\* The summary file when the report is written to its end: the three
\* totals, the mean compliance as a fraction, the clients detailed and the
\* priority clients (expired instruments or compliance below 80).
CompleteSummary(metrics, percent_sum) ==
    [written |-> TRUE,
     total_clientes |-> Cardinality(DOMAIN metrics),
     total_instrumentos |->
        SumOf([c \in DOMAIN metrics |-> metrics[c].total_instrumentos],
              DOMAIN metrics),
     total_vencidos |->
        SumOf([c \in DOMAIN metrics |-> metrics[c].instrumentos_vencidos],
              DOMAIN metrics),
     complete |-> TRUE,
     promedio |-> <<percent_sum[1],
                    percent_sum[2] * Cardinality(DOMAIN metrics)>>,
     detalle |-> DOMAIN metrics,
     prioritarios |->
        {c \in DOMAIN metrics :
            \/ metrics[c].instrumentos_vencidos > 0
            \/ 100 * metrics[c].instrumentos_al_dia
                   < 80 * metrics[c].total_instrumentos}]

\* The summary file when the division by total_clientes raises: the lines
\* written before it, which are those of the three totals.
InterruptedSummary ==
    [NoSummary EXCEPT !.written = TRUE]

\* generate_client_summary_report: the file written and the error raised;
\* sum(...) / total_clientes raises ZeroDivisionError for no client.
generate_client_summary_report(metrics) ==
    IF DOMAIN metrics = {}
    THEN [error |-> "ZeroDivisionError", file |-> InterruptedSummary]
    ELSE [error |-> "",
          file |-> CompleteSummary(
                      metrics,
                      PercentSum(metrics,
                                 ProductOf([c \in DOMAIN metrics |->
                                               metrics[c].total_instrumentos],
                                           DOMAIN metrics)))]

\* The generator before run is called.
RestOfAudit ==
    /\ instrumentos_file = [exists |-> FALSE, rows |-> <<>>]
    /\ self_instrumentos = <<>>
    /\ client_instrument_status = <<>>
    /\ summary = NoSummary
    /\ audit_files = {}

(***************************************************************************)
(* The date functions as a state machine: each step is one call            *)
(***************************************************************************)

\* The variables of the other parts of the script, at rest.
RestOfCsv ==
    /\ csv_rows = <<>>
    /\ events = <<>>
    /\ lines = <<>>
    /\ empresa_id = 1

RestOfDatabase ==
    /\ instrumentos = {}
    /\ calibraciones = <<>>
    /\ instrumento_id = {}
    /\ stmt = 1
    /\ history = <<>>

\* A path: whether its parent directory and the file exist, and the text of
\* the file.
PathState(parent, exists, text) ==
    [parent |-> parent, exists |-> exists, text |-> text]

NoDirectory == PathState(FALSE, FALSE, <<>>)

RestOfFiles ==
    /\ input_exists = TRUE
    /\ output = NoDirectory

RestOfDates ==
    /\ cell = <<>>
    /\ parts = NoParts
    /\ fecha = None
    /\ base_date = None
    /\ months = 0
    /\ fecha_proxima = None

InitDate ==
    /\ RestOfAudit
    /\ RestOfCommand
    /\ RestOfOrchestrator
    /\ RestOfModern
    /\ RestOfArgs
    /\ pc = "idle"
    /\ RestOfDates
    /\ RestOfCsv
    /\ RestOfDatabase
    /\ RestOfFiles

\* One call of extract_date.
ExtractDate ==
    /\ pc = "idle"
    /\ \E p \in PlainCells \cup MixedCells :
        /\ pc' = "extract_date"
        /\ parts' = p
        /\ cell' = CellOf(p)
        /\ fecha' = extract_date(CellOf(p))
        /\ base_date' = None
        /\ months' = 0
        /\ fecha_proxima' = None
        /\ UNCHANGED <<audit_vars, command_vars, orchestrator_vars, modern_vars, argv, args, input_exists, output,
                       csv_rows, events, lines, empresa_id, instrumentos,
                       calibraciones, instrumento_id, stmt, history>>

\* One call of add_months.
AddMonths ==
    /\ pc = "idle"
    /\ \E b \in BaseDates, n \in 0..MaxMonths :
        /\ pc' = "add_months"
        /\ base_date' = b
        /\ months' = n
        /\ fecha_proxima' = add_months(b, n)
        /\ cell' = <<>>
        /\ parts' = NoParts
        /\ fecha' = None
        /\ UNCHANGED <<audit_vars, command_vars, orchestrator_vars, modern_vars, argv, args, input_exists, output,
                       csv_rows, events, lines, empresa_id, instrumentos,
                       calibraciones, instrumento_id, stmt, history>>

NextDate == ExtractDate \/ AddMonths

SpecDate == InitDate /\ [][NextDate]_vars

(***************************************************************************)
(* Properties of the date functions (checked under SpecDate)               *)
(***************************************************************************)

\* The calendar as the properties state it.
ClaimLeap(y) == y % 400 = 0 \/ (y % 4 = 0 /\ y % 100 # 0)

ClaimDaysOfMonth(y, m) ==
    IF m \in {4, 6, 9, 11} THEN 30
    ELSE IF m = 2 THEN (IF ClaimLeap(y) THEN 29 ELSE 28)
    ELSE 31

ClaimMin(a, b) == IF a <= b THEN a ELSE b

\* The date the statement of add_months names for (base, n).
ClaimTarget(base, n) ==
    LET ty == base.y + ((base.m - 1 + n) \div 12)
        tm == ((base.m - 1 + n) % 12) + 1
    IN  DateValue(ty, tm, ClaimMin(base.d, ClaimDaysOfMonth(ty, tm)))

\* C7 as stated: for every valid date and every months >= 0, add_months
\* returns the date of year y + floor((m - 1 + months) / 12), month
\* ((m - 1 + months) mod 12) + 1 and day min(d, days of that month).
C7_AddMonthsAlwaysReturnsTarget ==
    pc = "add_months" => fecha_proxima = ClaimTarget(base_date, months)

\* C7 amended: add_months returns that date whenever its year is at most
\* 9999, and raises ValueError instead of returning a date when the year is
\* beyond 9999; 2024-01-31 + 1 month = 2024-02-29 and 2023-01-31 + 1 month
\* = 2023-02-28.
C7_AddMonthsTargetWithinMaxYear ==
    pc = "add_months" =>
        /\ ClaimTarget(base_date, months).y <= 9999
              => fecha_proxima = ClaimTarget(base_date, months)
        /\ ClaimTarget(base_date, months).y > 9999
              => fecha_proxima = ValueError
        /\ base_date = DateValue(2024, 1, 31) /\ months = 1
              => fecha_proxima = DateValue(2024, 2, 29)
        /\ base_date = DateValue(2023, 1, 31) /\ months = 1
              => fecha_proxima = DateValue(2023, 2, 28)

\* A call whose day does not exist in the target month.
C7_Witness ==
    /\ pc = "add_months"
    /\ base_date = DateValue(2024, 1, 31)
    /\ months = 1
    /\ fecha_proxima = DateValue(2024, 2, 29)

\* The month a token stands for, as the properties state it: the twelve
\* abbreviations in calendar order, SET standing for September as well.
ClaimMonthOrder ==
    << <<"E", "N", "E">>, <<"F", "E", "B">>, <<"M", "A", "R">>,
       <<"A", "B", "R">>, <<"M", "A", "Y">>, <<"J", "U", "N">>,
       <<"J", "U", "L">>, <<"A", "G", "O">>, <<"S", "E", "P">>,
       <<"O", "C", "T">>, <<"N", "O", "V">>, <<"D", "I", "C">> >>

ClaimIsAbbreviation(t) ==
    t = <<"S", "E", "T">> \/ \E i \in 1..12 : ClaimMonthOrder[i] = t

ClaimMonthNumber(t) ==
    IF t = <<"S", "E", "T">> THEN 9
    ELSE CHOOSE i \in 1..12 : ClaimMonthOrder[i] = t

\* A cell that is one token and nothing else: one or two day digits, a
\* separator, a month token, a separator, two to four year digits.
ClaimSingleToken(p) ==
    /\ p.pre = <<>> /\ p.suf = <<>>
    /\ p.sep1 \in {<<"-">>, <<"/">>} /\ p.sep2 \in {<<"-">>, <<"/">>}
    /\ Len(p.year) >= 2 /\ Len(p.year) <= 4

\* A cell in which no day/month/year token can be read.
ClaimNoToken(p) ==
    /\ p.pre = <<>> /\ p.suf = <<>>
    /\ \/ p.sep1 \notin {<<"-">>, <<"/">>}
       \/ p.sep2 \notin {<<"-">>, <<"/">>}
       \/ Len(p.year) < 2

\* A month token that stands for no month under any reading: with dots
\* removed, upper-cased, its first three letters are no abbreviation.
ClaimUnknownMonth(t) ==
    LET k == Upper(RemoveChar(t, "."))
    IN  \/ Len(k) < 3
        \/ /\ ~ClaimIsAbbreviation(Slice(k, 1, 3))
           /\ \A i \in 1..3 : k[i] \notin AccentedUpper

\* The year a year text of fewer than three digits stands for.
ClaimTwoDigitYear(n) == IF n <= 79 THEN 2000 + n ELSE 1900 + n

ClaimDayInMonth(d, m, y) == d >= 1 /\ d <= ClaimDaysOfMonth(y, m)

\* C8 as stated: extract_date never raises; a cell without a token, with an
\* unknown month token, or whose day/month/year is no calendar date (day 0,
\* day 31 in a 30-day month, 29 February of a non-leap year, year 0000)
\* returns None.
C8_MalformedCellsGiveNone ==
    pc = "extract_date" =>
        /\ fecha.kind \in {"date", "None"}
        /\ ClaimNoToken(parts) => fecha = None
        /\ ClaimSingleToken(parts) /\ ClaimUnknownMonth(parts.mon)
              => fecha = None
        /\ ( /\ ClaimSingleToken(parts)
             /\ ClaimIsAbbreviation(parts.mon)
             /\ Len(parts.year) = 2
             /\ ~ClaimDayInMonth(DigitsToInt(parts.day),
                                 ClaimMonthNumber(parts.mon),
                                 ClaimTwoDigitYear(DigitsToInt(parts.year))) )
              => fecha = None
        /\ ( /\ ClaimSingleToken(parts)
             /\ ClaimIsAbbreviation(parts.mon)
             /\ parts.year = <<"0", "0", "0", "0">> )
              => fecha = None

\* C8 amended: extract_date never raises; a cell without a token, with an
\* unknown month token, or whose day is no day of the month (day 0, day 31
\* in a 30-day month, 29 February of a non-leap year) returns None; a year
\* written 0000 is read as 2000, so the cell yields a date of the year 2000
\* whenever its day is a day of that month in 2000.
C8_MalformedCellsGiveNoneYearZeroExpanded ==
    pc = "extract_date" =>
        /\ fecha.kind \in {"date", "None"}
        /\ ClaimNoToken(parts) => fecha = None
        /\ ClaimSingleToken(parts) /\ ClaimUnknownMonth(parts.mon)
              => fecha = None
        /\ ( /\ ClaimSingleToken(parts)
             /\ ClaimIsAbbreviation(parts.mon)
             /\ Len(parts.year) = 2
             /\ ~ClaimDayInMonth(DigitsToInt(parts.day),
                                 ClaimMonthNumber(parts.mon),
                                 ClaimTwoDigitYear(DigitsToInt(parts.year))) )
              => fecha = None
        /\ ( /\ ClaimSingleToken(parts)
             /\ ClaimIsAbbreviation(parts.mon)
             /\ parts.year = <<"0", "0", "0", "0">> )
              => fecha =
                   IF ClaimDayInMonth(DigitsToInt(parts.day),
                                      ClaimMonthNumber(parts.mon), 2000)
                   THEN DateValue(2000, ClaimMonthNumber(parts.mon),
                                  DigitsToInt(parts.day))
                   ELSE None

\* A cell whose day does not exist in its month: 29-FEB-23.
C8_Witness ==
    /\ pc = "extract_date"
    /\ cell = <<"2", "9", "-", "F", "E", "B", "-", "2", "3">>
    /\ fecha = None

\* The tokens of a cell written as up to three tokens separated by blanks.
ClaimTokens(p) ==
    <<Strip(p.pre), p.day \o p.sep1 \o p.mon \o p.sep2 \o p.year,
      Strip(p.suf)>>

ClaimTokenPrefixes ==
    { <<>>, <<"3", "1", "-", "F", "E", "B", "-", "2", "4", " ">>,
      <<"5", "-", "X", "Y", "Z", "-", "2", "4", " ">> }

ClaimTokenSuffixes ==
    { <<>>, <<" ", "1", "5", "-", "M", "A", "R", "-", "2", "4">> }

\* The date of the first token that is a date on its own, None without one.
ClaimFirstRecognizable(tokens) ==
    LET good == {i \in 1..Len(tokens) : extract_date(tokens[i]) # None}
    IN  IF good = {} THEN None
        ELSE extract_date(tokens[CHOOSE i \in good : \A j \in good : i <= j])

\* C9: for a cell holding several day/month/year tokens, extract_date
\* returns the first token that is a recognizable date, and None only when
\* no token of the cell is one.
C9_ReturnsFirstRecognizableToken ==
    ( /\ pc = "extract_date"
      /\ parts.pre \in ClaimTokenPrefixes
      /\ parts.suf \in ClaimTokenSuffixes )
        => fecha = ClaimFirstRecognizable(ClaimTokens(parts))

\* A cell D-A-Y: a day, an abbreviation of the table and a year, with "-".
ClaimPlainCell(p) ==
    /\ p.pre = <<>> /\ p.suf = <<>>
    /\ p.sep1 = <<"-">> /\ p.sep2 = <<"-">>
    /\ ClaimIsAbbreviation(p.mon)

\* C10 as stated: for every abbreviation A of the table, two-digit year YY
\* and day D valid in that month of the expanded year, extract_date("D-A-YY")
\* is day D, the month of A, year 2000+YY for YY <= 79 and 1900+YY
\* otherwise; a four-digit year is kept as written.
C10_RoundTripFourDigitYearKept ==
    ( pc = "extract_date" /\ ClaimPlainCell(parts) ) =>
        LET D == DigitsToInt(parts.day)
            M == ClaimMonthNumber(parts.mon)
            Y == DigitsToInt(parts.year)
        IN  /\ ( Len(parts.year) = 2
                 /\ ClaimDayInMonth(D, M, ClaimTwoDigitYear(Y)) )
                  => fecha = DateValue(ClaimTwoDigitYear(Y), M, D)
            /\ ( Len(parts.year) = 4 /\ Y >= 1 /\ ClaimDayInMonth(D, M, Y) )
                  => fecha = DateValue(Y, M, D)

\* C10 amended: the same for two-digit years; a four-digit year of 0100 or
\* more is kept as written, and a four-digit year below 0100 (0000..0099)
\* is expanded like a two-digit year.
C10_RoundTripYearBelow100Expanded ==
    ( pc = "extract_date" /\ ClaimPlainCell(parts) ) =>
        LET D == DigitsToInt(parts.day)
            M == ClaimMonthNumber(parts.mon)
            Y == DigitsToInt(parts.year)
        IN  /\ ( Len(parts.year) = 2
                 /\ ClaimDayInMonth(D, M, ClaimTwoDigitYear(Y)) )
                  => fecha = DateValue(ClaimTwoDigitYear(Y), M, D)
            /\ ( Len(parts.year) = 4 /\ Y >= 100
                 /\ ClaimDayInMonth(D, M, Y) )
                  => fecha = DateValue(Y, M, D)
            /\ ( Len(parts.year) = 4 /\ Y < 100
                 /\ ClaimDayInMonth(D, M, ClaimTwoDigitYear(Y)) )
                  => fecha = DateValue(ClaimTwoDigitYear(Y), M, D)

\* A two-digit year above 79: 15-MAR-80 is 1980-03-15.
C10_Witness ==
    /\ pc = "extract_date"
    /\ cell = <<"1", "5", "-", "M", "A", "R", "-", "8", "0">>
    /\ fecha = DateValue(1980, 3, 15)

(***************************************************************************)
(* Inputs of iter_events: the rows of a CERT file                          *)
(***************************************************************************)

MaxRows == 2

Blank9 == <<<<>>, <<>>, <<>>, <<>>, <<>>, <<>>, <<>>, <<>>, <<>>>>

T2024 == <<"2", "0", "2", "4">>
T2025 == <<"2", "0", "2", "5">>
TPeriodo1 == <<"P", "E", "R", "I", "O", "D", "O", " ", "1">>
TPeriodo2 == <<"P", "E", "R", "I", "O", "D", "O", " ", "2">>
TExtraordinario ==
    <<"E", "X", "T", "R", "A", "O", "R", "D", "I", "N", "A", "R", "I", "O">>
TEne10 == <<"1", "0", "-", "E", "N", "E", "-", "2", "4">>
TFeb5 == <<"5", "-", "F", "E", "B", "-", "2", "4">>
TBal001 == <<"B", "A", "L", "-", "0", "0", "1">>

\* Year headers: three declared years; a sparse one (a blank and a
\* non-integer year); one shorter than the label header.
YearRows ==
    { Blank9 \o <<T2024, T2024, T2025>>,
      Blank9 \o <<T2024, <<>>, <<"x">>>>,
      Blank9 \o <<T2024>> }

\* Label headers: the three period names; and one with a lower-case label,
\* a second PERIODO 1 and an unknown label.
HeaderRows ==
    { Blank9 \o <<TPeriodo1, TPeriodo2, TExtraordinario>>,
      Blank9 \o << <<"P", "e", "r", "i", "o", "d", "o", " ", "1">>,
                   TPeriodo1, <<"o", "t", "r", "o">> >> }

\* A data row in the CERT layout: code in column 4, requirement in column
\* 7, frequency in column 8, period cells from column 9 on.
DataRow(codigo, requerimiento, frecuencia, c9, c10, c11) ==
    << <<>>, <<>>, <<>>, <<>>, codigo, <<>>, <<>>, requerimiento, frecuencia,
       c9, c10, c11 >>

DataRowChoices ==
    { DataRow(<<"A">>, <<"r">>, <<"1", "2">>, TEne10, <<>>, <<>>),
      DataRow(<<"A">>, <<"i", "t", "'", "s">>, <<"6">>, TEne10, <<>>, <<>>),
      DataRow(<<"B">>, <<>>, <<>>, TFeb5, TEne10, TEne10),
      DataRow(<<"A", "B">>, <<>>, <<"1", "2", ".", "5">>,
              <<"3", "1", "-", "F", "E", "B", "-", "2", "4", " ",
                "1", "-", "E", "N", "E", "-", "2", "4">>,
              <<"N", "A">>,
              <<"1", "-", "D", "I", "C", "-", "9", "9", "9", "9">>),
      DataRow(<<>>, <<"r">>, <<"1", "2">>, TEne10, TEne10, TEne10),
      DataRow(<<"B">>, <<>>, <<"i", "n", "f">>, TEne10, <<>>, <<>>),
      << <<>>, <<>>, <<>>, <<>>, <<"A">>, TEne10 >>,
      << <<>>, <<>>, <<>>, <<>>, <<"B">>, <<>>, <<>>, <<>>, <<"6">>, TFeb5 >> }

\* The sequences of at most n rows drawn from a set of rows.
RECURSIVE RowSeqs(_, _)
RowSeqs(S, n) ==
    IF n = 0 THEN {<<>>}
    ELSE RowSeqs(S, n - 1) \cup
         {q \o <<r>> : q \in RowSeqs(S, n - 1), r \in S}

\* The rows skipped before each header: none; or a row of blank cells before
\* the year header and an empty row before the label header.
SkippedRows == { <<<<>>, <<>>>>, << <<Blank9>>, << <<>> >> >> }

\* Files in the CERT layout: the skipped rows, the two headers, at most
\* MaxRows data rows.
CertFiles ==
    {skipped[1] \o <<y>> \o skipped[2] \o <<h>> \o data :
        skipped \in SkippedRows, y \in YearRows, h \in HeaderRows,
        data \in RowSeqs(DataRowChoices, MaxRows)}

\* Files without two header rows.
HeaderlessFiles ==
    { <<>>, <<Blank9>>, <<Blank9 \o <<T2024>>>>, <<Blank9, <<>>, <<>>>> }

\* The headers of the end-to-end scenario as written in the specification:
\* five leading cells, then the two periods.
ScenarioYearRow7 == << <<>>, <<>>, <<>>, <<>>, <<>>, T2024, T2024 >>

ScenarioHeaderRow7 == << <<>>, <<>>, <<>>, <<>>, <<>>, TPeriodo1, TPeriodo2 >>

\* Its data row, in the three layouts the seven-column headers allow: the
\* period cells under the header's period columns with the frequency in
\* column 8; the CERT layout; and seven cells with the frequency before the
\* period cells.
ScenarioRows7 ==
    { << <<>>, <<>>, <<>>, <<>>, TBal001, TEne10, <<>>, <<>>, <<"1", "2">> >>,
      DataRow(TBal001, <<>>, <<"1", "2">>, TEne10, <<>>, <<>>),
      << <<>>, <<>>, <<>>, <<"1", "2">>, TBal001, TEne10, <<>> >> }

\* The same scenario with the period columns where the CERT layout has
\* them: nine leading cells.
ScenarioYearRow9 == Blank9 \o <<T2024, T2024>>

ScenarioHeaderRow9 == Blank9 \o <<TPeriodo1, TPeriodo2>>

ScenarioRow9 ==
    << <<>>, <<>>, <<>>, <<>>, TBal001, <<>>, <<>>, <<>>, <<"1", "2">>,
       TEne10, <<>> >>

ScenarioFiles ==
    {<<ScenarioYearRow7, ScenarioHeaderRow7, r>> : r \in ScenarioRows7}
    \cup {<<ScenarioYearRow9, ScenarioHeaderRow9, ScenarioRow9>>}

\* Sparse headers, six period columns (indexes 9 to 14). Year cells: an NA
\* value, signed, with an underscore, a decimal, padded, missing; and a year
\* row with years below index 9 as well.
SparseYearRows ==
    { Blank9 \o << <<"N", "A">>, <<"+", "2", "0", "2", "4">>,
                   <<"2", "_", "0", "2", "4">>, <<"2", "0", ".", "0">>,
                   <<" ", "2", "0", "2", "5", " ">> >>,
      << <<>>, <<>>, <<>>, <<>>, <<>>, T2024, T2024, T2024, T2024,
         T2024, T2025, <<>>, T2025, T2025, <<"-", "1">> >>,
      Blank9 \o <<T2024, T2024, T2024, T2024, T2024, T2024>> }

\* Label cells: padded, lower-case, mixed case, an NA value, unknown; and a
\* label row with labels below index 9 as well.
SparseHeaderRows ==
    { Blank9 \o << TPeriodo1,
                   <<" ", "p", "e", "r", "i", "o", "d", "o", " ", "2", " ">>,
                   <<"E", "x", "t", "r", "a", "o", "r", "d", "i", "n", "a",
                     "r", "i", "o">>,
                   TPeriodo1, <<"N", "A">>, TPeriodo2 >>,
      << <<>>, <<>>, <<>>, <<>>, <<>>, TPeriodo1, TPeriodo2, TPeriodo1,
         TPeriodo2, <<"P", "E", "R", "I", "O", "D", "O">>, TPeriodo2,
         TPeriodo1, <<>>, TExtraordinario, TExtraordinario >> }

\* Data rows with a date in every period cell, also below index 9.
SparseDataRows ==
    { << <<>>, <<>>, <<>>, <<>>, <<"A">>, TEne10, TFeb5, <<"r">>,
         <<"1", "2">>, TEne10, TFeb5, TEne10, TFeb5, TEne10, TFeb5 >>,
      << <<>>, <<>>, <<>>, <<>>, <<"B">>, TEne10, TFeb5, TEne10, TFeb5,
         TFeb5, TEne10, TFeb5 >> }

SparseFiles ==
    {<<y, h>> \o data :
        y \in SparseYearRows, h \in SparseHeaderRows,
        data \in RowSeqs(SparseDataRows, 1)}

\* Texts of the frequency cell: integers, decimals, exponents, infinities,
\* NaN, words, an NA value, nothing; and month counts that take the year of
\* the next date beyond MAXYEAR and up to and beyond the largest C int.
FrequencyTexts ==
    { <<"1", "2">>, <<"1", "2", ".", "5">>, <<"-", "3", ".", "9">>,
      <<"1", "e", "2">>, <<"1", "_", "0">>, <<"0">>, <<"-", "6">>,
      <<"i", "n", "f">>, <<"-", "I", "n", "f">>,
      <<"I", "n", "f", "i", "n", "i", "t", "y">>,
      <<"1", "e", "9", "9", "9">>, <<"1", "E", "4", "0", "0">>,
      <<"1", "e", "-", "4", "0", "0">>, <<"n", "a", "n">>,
      <<"a", "b", "c">>, <<"1", "2", " ", "m">>, <<"N", "A">>, <<>>,
      <<".">>, <<"e", "5">>, <<"1", ".">>, <<".", "5">>,
      <<"1", "0", "0", "0", "0", "0">>, <<"1", "e", "1", "0">>,
      <<"2", "5", "7", "6", "9", "7", "7", "9", "4", "8", "6">>,
      <<"2", "5", "7", "6", "9", "7", "7", "9", "4", "8", "7">>,
      <<"1", "e", "1", "1">>, <<"-", "1", "e", "1", "1">>,
      <<"1", "e", "3", "0", "8">> }

\* Files of one data row whose frequency cell holds one of these texts.
FrequencyFiles ==
    {<<Blank9 \o <<T2024, T2024>>, Blank9 \o <<TPeriodo1, TPeriodo2>>,
       DataRow(<<"A">>, <<>>, f, TEne10, TFeb5, <<>>)>> :
        f \in FrequencyTexts}

(***************************************************************************)
(* The historical conversion as a state machine: iter_events, build_sql    *)
(***************************************************************************)

InitEvents ==
    /\ RestOfAudit
    /\ RestOfCommand
    /\ RestOfOrchestrator
    /\ RestOfModern
    /\ RestOfArgs
    /\ pc = "start"
    /\ csv_rows \in CertFiles \cup HeaderlessFiles \cup ScenarioFiles
                     \cup SparseFiles \cup FrequencyFiles
    /\ empresa_id \in {1, 2}
    /\ events = <<>>
    /\ lines = <<>>
    /\ RestOfDates
    /\ RestOfDatabase
    /\ RestOfFiles

\* iter_events returns its sorted list.
IterEvents ==
    /\ pc = "start"
    /\ IterEventsOfPath(input_exists, csv_rows).error = ""
    /\ events' = IterEventsOfPath(input_exists, csv_rows).events
    /\ pc' = "iter_events_done"
    /\ UNCHANGED <<audit_vars, command_vars, orchestrator_vars, modern_vars, argv, args, input_exists, output,
                   cell, parts, fecha, base_date, months, fecha_proxima,
                   csv_rows, lines, empresa_id, instrumentos, calibraciones,
                   instrumento_id, stmt, history>>

\* iter_events raises: the run ends with the error.
IterEventsRaises ==
    /\ pc = "start"
    /\ IterEventsOfPath(input_exists, csv_rows).error # ""
    /\ pc' = IterEventsOfPath(input_exists, csv_rows).error
    /\ UNCHANGED <<audit_vars, command_vars, orchestrator_vars, modern_vars, argv, args, input_exists, output,
                   cell, parts, fecha, base_date, months, fecha_proxima,
                   csv_rows, events, lines, empresa_id, instrumentos,
                   calibraciones, instrumento_id, stmt, history>>

\* build_sql turns the list into the script.
BuildSql ==
    /\ pc = "iter_events_done"
    /\ BuildSqlError(events) = ""
    /\ lines' = build_sql(events, empresa_id)
    /\ pc' = "build_sql_done"
    /\ UNCHANGED <<audit_vars, command_vars, orchestrator_vars, modern_vars, argv, args, input_exists, output,
                   cell, parts, fecha, base_date, months, fecha_proxima,
                   csv_rows, events, empresa_id, instrumentos, calibraciones,
                   instrumento_id, stmt, history>>

\* build_sql raises: the run ends with the error.
BuildSqlRaises ==
    /\ pc = "iter_events_done"
    /\ BuildSqlError(events) # ""
    /\ pc' = "build_sql_" \o BuildSqlError(events)
    /\ UNCHANGED <<audit_vars, command_vars, orchestrator_vars, modern_vars, argv, args, input_exists, output,
                   cell, parts, fecha, base_date, months, fecha_proxima,
                   csv_rows, events, lines, empresa_id, instrumentos,
                   calibraciones, instrumento_id, stmt, history>>

NextEvents == IterEvents \/ IterEventsRaises \/ BuildSql \/ BuildSqlRaises

SpecEvents == InitEvents /\ [][NextEvents]_vars

(***************************************************************************)
(* Claims about iter_events and build_sql                                  *)
(***************************************************************************)

\* The two header rows of the file with everything before them.
ClaimHeaderPart(rows) == Slice(rows, 1, HeaderRowIndex(rows))

\* The file with its data rows rearranged by the permutation f.
ClaimPermutedFile(rows, f) ==
    ClaimHeaderPart(rows)
    \o [i \in 1..Len(DataRows(rows)) |-> DataRows(rows)[f[i]]]

\* The list `events` of the file before the final sort.
ClaimAppended(rows) ==
    AppendedEvents(DataRows(rows),
                   period_columns(rows[YearRowIndex(rows)],
                                  rows[HeaderRowIndex(rows)]), 1)

ClaimSameKey(a, b) ==
    a.codigo = b.codigo /\ a.fecha = b.fecha /\ a.periodo = b.periodo

\* C4: for fixed header rows, the event sequence iter_events returns is the
\* same for every permutation of the data rows, also when two rows produce
\* events with equal (code, date, period_code) and different requirement or
\* frequency.
C4_SameEventsForEveryRowOrder ==
    pc = "iter_events_done" =>
        \A f \in Permutations(1..Len(DataRows(csv_rows))) :
            iter_events(ClaimPermutedFile(csv_rows, f)).events = events

ClaimIsLookup(line) == line.kind = "set_instrumento_id"

ClaimIsGuardedInsert(line) == line.kind = "select_guarded"

\* C5: the sequence returned by iter_events is in non-decreasing order of
\* (code, date, period_code), and build_sql emits the statements of the
\* events in exactly that order: the k-th lookup and the k-th guarded insert
\* of the script are those of the k-th event.
C5_EventsSortedAndEmittedInOrder ==
    /\ pc \in {"iter_events_done", "build_sql_done"} =>
          \A k \in 1..Len(events) - 1 : ~KeyLess(events[k + 1], events[k])
    /\ pc = "build_sql_done" =>
          /\ Len(SelectSeq(lines, ClaimIsLookup)) = Len(events)
          /\ Len(SelectSeq(lines, ClaimIsGuardedInsert)) = Len(events)
          /\ \A k \in 1..Len(events) :
                /\ SelectSeq(lines, ClaimIsLookup)[k].codigo
                      = sql_escape(events[k].codigo)
                /\ SelectSeq(lines, ClaimIsGuardedInsert)[k].fecha
                      = isoformat(events[k].fecha)
                /\ SelectSeq(lines, ClaimIsGuardedInsert)[k].periodo
                      = events[k].periodo
                /\ SelectSeq(lines, ClaimIsGuardedInsert)[k].observaciones
                      = Observaciones(events[k])

\* A script was built from several events that the rows did not yield in
\* sorted order.
C5_Witness ==
    /\ pc = "build_sql_done"
    /\ Len(events) >= 2
    /\ events # ClaimAppended(csv_rows)
    /\ \E k \in 1..Len(events) - 1 : ClaimSameKey(events[k], events[k + 1])

\* The outcome the end-to-end scenario states: exactly one event (BAL-001,
\* 2024-01-10, P1, year 2024, frequency 12) and exactly one guarded insert,
\* with the next-due literal '2025-01-10'.
ClaimScenarioOutcome ==
    /\ Len(events) = 1
    /\ events[1].codigo = TBal001
    /\ events[1].fecha = DateValue(2024, 1, 10)
    /\ events[1].periodo = <<"P", "1">>
    /\ events[1].year = 2024
    /\ events[1].frecuencia_meses = {PyInt(12)}
    /\ Len(SelectSeq(lines, ClaimIsGuardedInsert)) = 1
    /\ SelectSeq(lines, ClaimIsGuardedInsert)[1].fecha_proxima
          = <<"'", "2", "0", "2", "5", "-", "0", "1", "-", "1", "0", "'">>

\* C6 as stated: with the year header ["", "", "", "", "", 2024, 2024], the
\* label header ["", "", "", "", "", "PERIODO 1", "PERIODO 2"] and one data
\* row with code BAL-001, frequency "12", period-1 cell "10-ENE-24" and a
\* blank period-2 cell, there is exactly one event and one guarded insert
\* with next-due date 2025-01-10.
C6_ScenarioFiveLeadingCells ==
    (/\ pc = "build_sql_done"
     /\ Len(csv_rows) = 3
     /\ csv_rows[1] = ScenarioYearRow7
     /\ csv_rows[2] = ScenarioHeaderRow7
     /\ csv_rows[3] \in ScenarioRows7)
    => ClaimScenarioOutcome

\* C6 amended: the same scenario with nine leading cells in both header
\* rows, the code in column 4, the frequency in column 8 and the period
\* cells in columns 9 and 10, gives exactly one event (BAL-001, 2024-01-10,
\* P1, year 2024, frequency 12) and one guarded insert with next-due date
\* 2025-01-10.
C6_ScenarioNineLeadingCells ==
    (/\ pc = "build_sql_done"
     /\ csv_rows = <<ScenarioYearRow9, ScenarioHeaderRow9, ScenarioRow9>>)
    => ClaimScenarioOutcome

\* The script of the nine-cell scenario was built.
C6_Witness ==
    /\ pc = "build_sql_done"
    /\ csv_rows = <<ScenarioYearRow9, ScenarioHeaderRow9, ScenarioRow9>>
    /\ Len(lines) > 1

(***************************************************************************)
(* The emitted script executed against instrumentos and calibraciones      *)
(***************************************************************************)

MaxEvents == 2
MaxRuns == 2

\* The value of the body of a quoted SQL literal: two quotes read as one
\* quote, a single quote ends the literal.
RECURSIVE SqlLiteralValue(_)
SqlLiteralValue(body) ==
    IF body = <<>> THEN <<>>
    ELSE IF Head(body) # "'"
    THEN <<Head(body)>> \o SqlLiteralValue(Tail(body))
    ELSE IF Len(body) >= 2 /\ body[2] = "'"
    THEN <<"'">> \o SqlLiteralValue(Tail(Tail(body)))
    ELSE <<>>

\* The value of the {fecha_proxima} field: NULL or the quoted literal.
SqlDateOrNull(field) ==
    IF field = SqlNull THEN SqlNull
    ELSE SqlLiteralValue(Slice(field, 2, Len(field) - 1))

\* SELECT id FROM instrumentos WHERE codigo = '...' AND empresa_id = ...
LookupMatches(line, instrumentos_rows) ==
    {r \in instrumentos_rows :
        /\ r.codigo = SqlLiteralValue(line.codigo)
        /\ r.empresa_id = line.empresa_id}

\* A variant of ScalarSubquery that leaves the variable as it was when no
\* row matches (the behaviour of SELECT id INTO @instrumento_id).
ScalarSubquery_keeps_value(matches, current) ==
    IF matches = {} THEN {current} ELSE {{r.id} : r \in matches}

\* The values SET @instrumento_id = (SELECT ... LIMIT 1) can assign: NULL
\* (the empty set) when no row matches; otherwise the id of any matching
\* row, since LIMIT 1 without ORDER BY leaves the choice to the server.
ScalarSubquery(matches, current) ==
    IF matches = {} THEN {{}} ELSE {{r.id} : r \in matches}

\* SELECT 1 FROM calibraciones WHERE instrumento_id = @instrumento_id AND
\* empresa_id = ... AND fecha_calibracion = '...' AND periodo = '...'
ExistingRows(id, line, table) ==
    {i \in 1..Len(table) :
        /\ {table[i].instrumento_id} = id
        /\ table[i].empresa_id = line.empresa_id
        /\ table[i].fecha_calibracion = SqlLiteralValue(line.fecha)
        /\ table[i].periodo = SqlLiteralValue(line.periodo)}

\* A variant of InsertFires without the NOT EXISTS condition.
InsertFires_without_not_exists(id, line, table) == id # {}

\* WHERE @instrumento_id IS NOT NULL AND NOT EXISTS (...)
InsertFires(id, line, table) ==
    id # {} /\ ExistingRows(id, line, table) = {}

\* The row the SELECT of the guarded insert yields.
InsertedRow(id, line) ==
    [instrumento_id |-> CHOOSE n \in id : TRUE,
     empresa_id |-> line.empresa_id,
     tipo |-> SqlLiteralValue(line.tipo),
     fecha_calibracion |-> SqlLiteralValue(line.fecha),
     periodo |-> SqlLiteralValue(line.periodo),
     fecha_proxima |-> SqlDateOrNull(line.fecha_proxima),
     resultado |-> SqlNull,
     observaciones |-> SqlLiteralValue(line.observaciones)]

\* calibraciones after INSERT INTO calibraciones (...) SELECT ... WHERE ...
AfterInsert(id, line, table) ==
    IF InsertFires(id, line, table)
    THEN Append(table, InsertedRow(id, line))
    ELSE table

\* Events given to build_sql: two with the same code, date and period and
\* different requirement and frequency (one requirement holds a quote), one
\* whose code no instrument has, one whose code holds a quote, one with
\* quotes in its code, its requirement and its period label.
CalibrationEvent(codigo, d, periodo, periodo_label, requerimiento, frecuencia) ==
    [codigo |-> codigo, fecha |-> d, periodo |-> periodo,
     periodo_label |-> periodo_label, year |-> d.y,
     requerimiento |-> requerimiento, frecuencia_meses |-> frecuencia]

EventChoices ==
    { CalibrationEvent(<<"A">>, DateValue(2024, 1, 10), <<"P", "1">>,
                       TPeriodo1, <<"r">>, {PyInt(12)}),
      CalibrationEvent(<<"A">>, DateValue(2024, 1, 10), <<"P", "1">>,
                       TPeriodo1, <<"i", "t", "'", "s">>, {PyInt(6)}),
      CalibrationEvent(<<"X">>, DateValue(2024, 2, 5), <<"P", "2">>,
                       TPeriodo2, <<>>, {}),
      CalibrationEvent(<<"B", "'">>, DateValue(2024, 1, 10), <<"P", "1">>,
                       TPeriodo1, <<>>, {PyInt(0)}),
      CalibrationEvent(<<"'", "'", "C">>, DateValue(2024, 2, 5), <<"P", "2">>,
                       <<"P", "'", "2">>, <<"'">>, {}) }

EventLists == RowSeqs(EventChoices, MaxEvents)

Instrumento(id, codigo, empresa) ==
    [id |-> id, codigo |-> codigo, empresa_id |-> empresa]

\* Contents of instrumentos: empty; one instrument; two rows with the same
\* code and tenant; instruments of two tenants and a code with a quote.
InstrumentosChoices ==
    { {},
      {Instrumento(1, <<"A">>, 1)},
      {Instrumento(1, <<"A">>, 1), Instrumento(2, <<"A">>, 1)},
      {Instrumento(1, <<"A">>, 1), Instrumento(3, <<"B", "'">>, 1),
       Instrumento(4, <<"A">>, 2)} }

Calibracion(id, empresa, fecha_calibracion, periodo) ==
    [instrumento_id |-> id, empresa_id |-> empresa, tipo |-> <<"o", "l", "d">>,
     fecha_calibracion |-> isoformat(fecha_calibracion), periodo |-> periodo,
     fecha_proxima |-> SqlNull, resultado |-> SqlNull,
     observaciones |-> <<>>]

\* Contents of calibraciones before the first execution: empty; a row one
\* of the events would insert; a table that already holds the same key twice.
CalibracionesChoices ==
    { <<>>,
      <<Calibracion(1, 1, DateValue(2024, 1, 10), <<"P", "1">>)>>,
      <<Calibracion(2, 1, DateValue(2024, 1, 10), <<"P", "1">>),
        Calibracion(2, 1, DateValue(2024, 1, 10), <<"P", "1">>)>> }

(***************************************************************************)
(* build_sql and the execution of its script as a state machine            *)
(***************************************************************************)

InitSql ==
    /\ RestOfAudit
    /\ RestOfCommand
    /\ RestOfOrchestrator
    /\ RestOfModern
    /\ RestOfArgs
    /\ pc = "iter_events_done"
    /\ events \in EventLists
    /\ empresa_id \in {1, 2}
    /\ instrumentos \in InstrumentosChoices
    /\ calibraciones \in CalibracionesChoices
    /\ history = <<calibraciones>>
    /\ instrumento_id = {}
    /\ stmt = 1
    /\ csv_rows = <<>>
    /\ lines = <<>>
    /\ RestOfDates
    /\ RestOfFiles

\* The script is given to the database for the first time.
BeginExecution ==
    /\ pc = "build_sql_done"
    /\ pc' = "executing"
    /\ stmt' = 1
    /\ UNCHANGED <<audit_vars, command_vars, orchestrator_vars, modern_vars, argv, args, input_exists, output,
                   cell, parts, fecha, base_date, months, fecha_proxima,
                   csv_rows, events, lines, empresa_id, instrumentos,
                   calibraciones, instrumento_id, history>>

\* A comment or an empty line.
SkipLine ==
    /\ pc = "executing"
    /\ stmt <= Len(lines)
    /\ lines[stmt].kind \in {"comment_no_events", "comment_source",
                             "comment_empresa", "blank"}
    /\ stmt' = stmt + 1
    /\ UNCHANGED <<audit_vars, command_vars, orchestrator_vars, modern_vars, argv, args, input_exists, output,
                   pc, cell, parts, fecha, base_date, months, fecha_proxima,
                   csv_rows, events, lines, empresa_id, instrumentos,
                   calibraciones, instrumento_id, history>>

\* START TRANSACTION;
StartTransaction ==
    /\ pc = "executing"
    /\ stmt <= Len(lines)
    /\ lines[stmt].kind = "start_transaction"
    /\ stmt' = stmt + 1
    /\ UNCHANGED <<audit_vars, command_vars, orchestrator_vars, modern_vars, argv, args, input_exists, output,
                   pc, cell, parts, fecha, base_date, months, fecha_proxima,
                   csv_rows, events, lines, empresa_id, instrumentos,
                   calibraciones, instrumento_id, history>>

\* SET @instrumento_id = (SELECT id FROM instrumentos WHERE ... LIMIT 1);
SetInstrumentoId ==
    /\ pc = "executing"
    /\ stmt <= Len(lines)
    /\ lines[stmt].kind = "set_instrumento_id"
    /\ instrumento_id' \in
          ScalarSubquery(LookupMatches(lines[stmt], instrumentos),
                         instrumento_id)
    /\ stmt' = stmt + 1
    /\ UNCHANGED <<audit_vars, command_vars, orchestrator_vars, modern_vars, argv, args, input_exists, output,
                   pc, cell, parts, fecha, base_date, months, fecha_proxima,
                   csv_rows, events, lines, empresa_id, instrumentos,
                   calibraciones, history>>

\* INSERT INTO calibraciones (...) SELECT ... FROM DUAL WHERE ...; the
\* statement spans two entries of `lines`.
GuardedInsert ==
    /\ pc = "executing"
    /\ stmt < Len(lines)
    /\ lines[stmt].kind = "insert_into"
    /\ lines[stmt + 1].kind = "select_guarded"
    /\ calibraciones' =
          AfterInsert(instrumento_id, lines[stmt + 1], calibraciones)
    /\ stmt' = stmt + 2
    /\ UNCHANGED <<audit_vars, command_vars, orchestrator_vars, modern_vars, argv, args, input_exists, output,
                   pc, cell, parts, fecha, base_date, months, fecha_proxima,
                   csv_rows, events, lines, empresa_id, instrumentos,
                   instrumento_id, history>>

\* COMMIT;
Commit ==
    /\ pc = "executing"
    /\ stmt <= Len(lines)
    /\ lines[stmt].kind = "commit"
    /\ stmt' = stmt + 1
    /\ UNCHANGED <<audit_vars, command_vars, orchestrator_vars, modern_vars, argv, args, input_exists, output,
                   pc, cell, parts, fecha, base_date, months, fecha_proxima,
                   csv_rows, events, lines, empresa_id, instrumentos,
                   calibraciones, instrumento_id, history>>

\* The end of the script: the execution is over.
EndOfScript ==
    /\ pc = "executing"
    /\ stmt = Len(lines) + 1
    /\ history' = Append(history, calibraciones)
    /\ pc' = "executed"
    /\ UNCHANGED <<audit_vars, command_vars, orchestrator_vars, modern_vars, argv, args, input_exists, output,
                   cell, parts, fecha, base_date, months, fecha_proxima,
                   csv_rows, events, lines, empresa_id, instrumentos,
                   calibraciones, instrumento_id, stmt>>

\* The same script is executed again, in the same session or in a new one
\* (where @instrumento_id is NULL again).
ExecuteAgain ==
    /\ pc = "executed"
    /\ Len(history) <= MaxRuns
    /\ pc' = "executing"
    /\ stmt' = 1
    /\ instrumento_id' \in {instrumento_id, {}}
    /\ UNCHANGED <<audit_vars, command_vars, orchestrator_vars, modern_vars, argv, args, input_exists, output,
                   cell, parts, fecha, base_date, months, fecha_proxima,
                   csv_rows, events, lines, empresa_id, instrumentos,
                   calibraciones, history>>

NextSql ==
    \/ BuildSql
    \/ BeginExecution
    \/ SkipLine
    \/ StartTransaction
    \/ SetInstrumentoId
    \/ GuardedInsert
    \/ Commit
    \/ EndOfScript
    \/ ExecuteAgain

SpecSql == InitSql /\ [][NextSql]_vars

(***************************************************************************)
(* Claims about the execution of the script                                *)
(***************************************************************************)

\* C1: for every event list, tenant id and contents of instrumentos and
\* calibraciones, a second execution of the script right after a first one
\* adds no row: the table after two executions equals the table after one.
\* history[1] is the table before the first execution.
C1_SecondExecutionAddsNoRow ==
    Len(history) >= 3 => history[3] = history[2]

\* The event whose statements start at the INSERT INTO entry lines[at].
ClaimEventAt(at) == events[(at - 1) \div 4]

ClaimSameRowKey(a, b) ==
    /\ a.instrumento_id = b.instrumento_id
    /\ a.empresa_id = b.empresa_id
    /\ a.fecha_calibracion = b.fecha_calibracion
    /\ a.periodo = b.periodo

ClaimLastRow(table) == table[Len(table)]

\* C2: a step of the execution changes calibraciones only by the INSERT of
\* an event appending one row, and only if an instrumentos row with the
\* event's code and the tenant id exists, the new row carries the id of
\* such a row, the event's date and period and the tenant id, and the table
\* held no row with that instrument id, tenant id, date and period. So an
\* event whose instrument does not exist adds no row, under no id.
C2_InsertOnlyForExistingInstrumentAndNewKey ==
    [][calibraciones' # calibraciones =>
        /\ pc = "executing"
        /\ lines[stmt].kind = "insert_into"
        /\ Len(calibraciones') = Len(calibraciones) + 1
        /\ SubSeq(calibraciones', 1, Len(calibraciones)) = calibraciones
        /\ ClaimLastRow(calibraciones').empresa_id = empresa_id
        /\ ClaimLastRow(calibraciones').fecha_calibracion
              = isoformat(ClaimEventAt(stmt).fecha)
        /\ ClaimLastRow(calibraciones').periodo = ClaimEventAt(stmt).periodo
        /\ \E r \in instrumentos :
              /\ r.codigo = ClaimEventAt(stmt).codigo
              /\ r.empresa_id = empresa_id
              /\ r.id = ClaimLastRow(calibraciones').instrumento_id
        /\ \A i \in 1..Len(calibraciones) :
              ~ClaimSameRowKey(calibraciones[i], ClaimLastRow(calibraciones'))
    ]_vars

ClaimHasInstrument(event) ==
    \E r \in instrumentos :
        r.codigo = event.codigo /\ r.empresa_id = empresa_id

\* An execution is over in which an event without instrument came after an
\* event that has one and whose row was inserted.
C2_Witness ==
    /\ pc = "executed"
    /\ Len(calibraciones) > Len(history[1])
    /\ \E k \in 1..Len(events) - 1 :
          /\ ClaimHasInstrument(events[k])
          /\ ~ClaimHasInstrument(events[k + 1])

ClaimNoDuplicateKeys(table) ==
    \A i, j \in 1..Len(table) :
        ClaimSameRowKey(table[i], table[j]) => i = j

\* C3: starting from a table in which no two rows share (instrument id,
\* tenant id, calibration date, period), no number of executions of the
\* script produces two rows sharing that key, also when the event list
\* holds several events with the same code, date and period.
C3_NoDuplicateKeysEver ==
    ClaimNoDuplicateKeys(history[1]) => ClaimNoDuplicateKeys(calibraciones)

\* A script with two events of the same code, date and period was executed
\* twice on a table without duplicate keys, and rows were inserted.
C3_Witness ==
    /\ pc = "executed"
    /\ Len(history) >= 3
    /\ ClaimNoDuplicateKeys(history[1])
    /\ Len(calibraciones) > Len(history[1])
    /\ \E k \in 1..Len(events) - 1 : ClaimSameKey(events[k], events[k + 1])

(***************************************************************************)
(* Properties of the month token (checked under SpecDate)                  *)
(***************************************************************************)

\* The normalization the properties state: dots removed, upper-cased, the
\* accents of the five vowels removed.
ClaimUnaccent(c) ==
    IF c = "Aacute" THEN "A" ELSE IF c = "Eacute" THEN "E"
    ELSE IF c = "Iacute" THEN "I" ELSE IF c = "Oacute" THEN "O"
    ELSE IF c = "Uacute" THEN "U" ELSE c

ClaimNormalizedToken(t) ==
    LET k == Upper(RemoveChar(t, "."))
    IN  [i \in 1..Len(k) |-> ClaimUnaccent(k[i])]

\* The year a year text stands for: a value below 100 is expanded.
ClaimYear(t) ==
    IF DigitsToInt(t) < 100 THEN ClaimTwoDigitYear(DigitsToInt(t))
    ELSE DigitsToInt(t)

\* The date of day d, month m, year y, None when it is no calendar date.
ClaimDateOrNone(d, m, y) ==
    IF ClaimDayInMonth(d, m, y) THEN DateValue(y, m, d) ELSE None

\* C11 as stated: the month of a token is resolved through the first three
\* letters of its normalized form: a token whose normalized 3-letter prefix
\* is in the table (ene., Ene, ENERO, sept.) yields that month, a token
\* whose prefix is not in the table yields None.
C11_MonthResolvedByPrefix ==
    ( pc = "extract_date" /\ ClaimSingleToken(parts) ) =>
        LET k == ClaimNormalizedToken(parts.mon)
        IN  IF Len(k) >= 3 /\ ClaimIsAbbreviation(Slice(k, 1, 3))
            THEN fecha = ClaimDateOrNone(DigitsToInt(parts.day),
                                         ClaimMonthNumber(Slice(k, 1, 3)),
                                         ClaimYear(parts.year))
            ELSE fecha = None

\* C11 amended: the month of a token is resolved by looking up its whole
\* normalized form in the table: a token whose normalized form is one of
\* the thirteen keys (ene., Ene, ENE) yields that month; every other token,
\* also one that only starts with a key (ENERO, sept.), yields None.
C11_MonthResolvedByWholeToken ==
    ( pc = "extract_date" /\ ClaimSingleToken(parts) ) =>
        LET k == ClaimNormalizedToken(parts.mon)
        IN  IF ClaimIsAbbreviation(k)
            THEN fecha = ClaimDateOrNone(DigitsToInt(parts.day),
                                         ClaimMonthNumber(k),
                                         ClaimYear(parts.year))
            ELSE fecha = None

\* The lower-case dotted token ene. was resolved to January.
C11_Witness ==
    /\ pc = "extract_date"
    /\ ClaimSingleToken(parts)
    /\ parts.mon = <<"e", "n", "e", ".">>
    /\ fecha.kind = "date"
    /\ fecha.m = 1

(***************************************************************************)
(* Properties of the period columns and of the events built from them      *)
(* (checked under SpecEvents)                                              *)
(***************************************************************************)

\* The two header rows of the file and the columns resolved from them.
ClaimYearRow == csv_rows[YearRowIndex(csv_rows)]

ClaimLabelRow == csv_rows[HeaderRowIndex(csv_rows)]

ClaimColumns == period_columns(ClaimYearRow, ClaimLabelRow)

\* An empty or NA value, as the properties list them.
ClaimIsNA(t) ==
    Strip(t) \in { <<>>, <<"N", "A">>, <<"N", "D">>, <<"N", "/", "A">>,
                   <<"n", "u", "l", "l">>, <<"N", "U", "L", "L">> }

\* The period code of a label cell, <<>> for a label that names no period.
ClaimPeriodCode(t) ==
    IF Upper(Strip(t)) = <<"P", "E", "R", "I", "O", "D", "O", " ", "1">>
    THEN <<"P", "1">>
    ELSE IF Upper(Strip(t)) = <<"P", "E", "R", "I", "O", "D", "O", " ", "2">>
    THEN <<"P", "2">>
    ELSE IF Upper(Strip(t)) = <<"E", "X", "T", "R", "A", "O", "R", "D", "I",
                                "N", "A", "R", "I", "O">>
    THEN <<"E", "X", "T", "R", "A">>
    ELSE <<>>

\* Whether the 0-based column i is one the properties call resolved.
ClaimResolves(i) ==
    /\ i >= 9
    /\ i < Len(ClaimLabelRow)
    /\ i < Len(ClaimYearRow)
    /\ ~ClaimIsNA(ClaimYearRow[i + 1])
    /\ ParseInt(Strip(ClaimYearRow[i + 1])).kind = "int"
    /\ ClaimPeriodCode(ClaimLabelRow[i + 1]) # <<>>

\* C12: a column index i is resolved exactly when i >= 9, the year cell at
\* i exists, is no empty/NA value and parses as an integer, and the label
\* cell at i, stripped and upper-cased, is PERIODO 1, PERIODO 2 or
\* EXTRAORDINARIO; the resolved column carries the code P1, P2 or EXTRA,
\* the label as read (stripped, in its own case) and that integer year, and
\* the resolved columns are in ascending index order.
C12_ColumnsResolvedExactly ==
    pc = "iter_events_done" =>
        LET cols == ClaimColumns
            resolved == {cols[k].idx : k \in 1..Len(cols)}
        IN  /\ \A i \in 0..Len(ClaimLabelRow) - 1 :
                  ClaimResolves(i) <=> i \in resolved
            /\ \A k \in 1..Len(cols) :
                  /\ cols[k].periodo
                        = ClaimPeriodCode(ClaimLabelRow[cols[k].idx + 1])
                  /\ cols[k].periodo_label
                        = Strip(ClaimLabelRow[cols[k].idx + 1])
                  /\ cols[k].year
                        = ParseInt(Strip(ClaimYearRow[cols[k].idx + 1])).val
            /\ \A k \in 1..Len(cols) - 1 : cols[k].idx < cols[k + 1].idx

\* Headers with labels and years below index 9, of which several columns
\* from index 9 on were resolved and one was not.
C12_Witness ==
    /\ pc = "iter_events_done"
    /\ Len(ClaimColumns) >= 2
    /\ ClaimPeriodCode(ClaimLabelRow[6]) # <<>>
    /\ ~ClaimIsNA(ClaimYearRow[6])
    /\ \E i \in 9..Len(ClaimLabelRow) - 1 : ~ClaimResolves(i)

\* Headers of which only some of the period columns are resolved.
ClaimSparseHeaders ==
    \E i \in 9..Len(ClaimLabelRow) - 1 : ~ClaimResolves(i)

\* Whether the event is the one of a data row and a resolved column.
ClaimEventFromResolvedColumn(e) ==
    \E r \in 1..Len(DataRows(csv_rows)), i \in 9..Len(ClaimLabelRow) - 1 :
        /\ ClaimResolves(i)
        /\ i < Len(DataRows(csv_rows)[r])
        /\ e.codigo = Strip(DataRows(csv_rows)[r][5])
        /\ e.fecha = extract_date(Strip(DataRows(csv_rows)[r][i + 1]))
        /\ e.periodo = ClaimPeriodCode(ClaimLabelRow[i + 1])
        /\ e.periodo_label = Strip(ClaimLabelRow[i + 1])
        /\ e.year = ParseInt(Strip(ClaimYearRow[i + 1])).val

\* C13: for header rows of which only some period columns are resolved
\* (missing or non-integer year, blank or unknown label, year row shorter
\* than the label row), iter_events raises no error and every event it
\* returns comes from a resolved column: a date under an unresolved column
\* produces no event.
C13_SparseHeadersRaiseNoError ==
    ( /\ pc # "start"
      /\ HeaderRowIndex(csv_rows) # 0
      /\ ClaimSparseHeaders )
    => /\ pc \in {"iter_events_done", "build_sql_done"}
       /\ \A k \in 1..Len(events) : ClaimEventFromResolvedColumn(events[k])

\* Frequency texts that are absent or denote no number.
ClaimNotANumber ==
    { <<"a", "b", "c">>, <<"1", "2", " ", "m">>, <<"N", "A">>, <<>>,
      <<".">>, <<"e", "5">> }

\* C16: for every text of the frequency cell of a data row iter_events does
\* not abort (also for inf, nan, 1e999 and 12.5), and a value that is absent
\* or denotes no number gives events without frequency.
C16_FrequencyNeverAborts ==
    ( pc # "start" /\ csv_rows \in FrequencyFiles )
    => /\ pc \in {"iter_events_done", "build_sql_done"}
       /\ Len(events) = 2
       /\ csv_rows[3][9] \in ClaimNotANumber
             => \A k \in 1..Len(events) : events[k].frecuencia_meses = {}

\* A data row of at least ten cells without a code and with a date in its
\* first period cell.
ClaimRowWithoutCode(row) ==
    /\ Len(row) >= 10
    /\ ClaimIsNA(row[5])
    /\ extract_date(Strip(row[10])) # None

\* C14: every event returned by iter_events has a non-empty code, a valid
\* calendar date and a period code among P1, P2, EXTRA; its code and date
\* are those of a data row with that code and of a cell of that row holding
\* that date, so a row without a code and a cell without a parseable date
\* never appear as an event.
C14_EventsHaveCodeDateAndPeriod ==
    pc \in {"iter_events_done", "build_sql_done"} =>
        \A k \in 1..Len(events) :
            /\ events[k].codigo # <<>>
            /\ ~ClaimIsNA(events[k].codigo)
            /\ events[k].fecha.kind = "date"
            /\ events[k].fecha.y \in 1..9999
            /\ events[k].fecha.m \in 1..12
            /\ ClaimDayInMonth(events[k].fecha.d, events[k].fecha.m,
                               events[k].fecha.y)
            /\ events[k].periodo
                  \in {<<"P", "1">>, <<"P", "2">>, <<"E", "X", "T", "R", "A">>}
            /\ \E r \in 1..Len(DataRows(csv_rows)) :
                  /\ Strip(DataRows(csv_rows)[r][5]) = events[k].codigo
                  /\ \E i \in 10..Len(DataRows(csv_rows)[r]) :
                        extract_date(Strip(DataRows(csv_rows)[r][i]))
                            = events[k].fecha

\* Events were returned for a file that also holds a row without a code
\* whose period cell holds a date.
C14_Witness ==
    /\ pc = "iter_events_done"
    /\ Len(events) >= 1
    /\ \E r \in 1..Len(DataRows(csv_rows)) :
          ClaimRowWithoutCode(DataRows(csv_rows)[r])

\* The resolved column indexes of the header rows.
ClaimResolvedIndexes == {i \in 9..Len(ClaimLabelRow) - 1 : ClaimResolves(i)}

\* The pairs (data row, resolved column) the properties say give an event:
\* the row is not entirely blank, has at least 9 cells and a code (no empty
\* or NA value) in column 4, and its cell at the column's index yields a
\* date.
ClaimEventPairs(data, resolved) ==
    {p \in (1..Len(data)) \X resolved :
        /\ Len(data[p[1]]) >= 9
        /\ ~ClaimIsNA(data[p[1]][5])
        /\ p[2] < Len(data[p[1]])
        /\ extract_date(Strip(data[p[1]][p[2] + 1])) # None}

\* The code, date, period, label and year of the event of a pair.
ClaimEventOfPair(data, year_row, label_row, p) ==
    << Strip(data[p[1]][5]),
       extract_date(Strip(data[p[1]][p[2] + 1])),
       ClaimPeriodCode(label_row[p[2] + 1]),
       Strip(label_row[p[2] + 1]),
       ParseInt(Strip(year_row[p[2] + 1])).val >>

ClaimEventFields(e) ==
    <<e.codigo, e.fecha, e.periodo, e.periodo_label, e.year>>

\* The events agree with the pairs: the number of events is the number of
\* pairs, and each pair's event occurs as often as pairs give it.
ClaimEventsMatchPairs ==
    LET data == DataRows(csv_rows)
        pairs == ClaimEventPairs(data, ClaimResolvedIndexes)
        of == [p \in pairs |->
                 ClaimEventOfPair(data, ClaimYearRow, ClaimLabelRow, p)]
        got == [k \in 1..Len(events) |-> ClaimEventFields(events[k])]
    IN  /\ Len(events) = Cardinality(pairs)
        /\ \A p \in pairs :
              Cardinality({k \in 1..Len(events) : got[k] = of[p]})
              = Cardinality({q \in pairs : of[q] = of[p]})

\* C15: once iter_events has read a file with both header rows, it has
\* emitted exactly one event for each such pair and no other event: the
\* number of events is the number of pairs, and the year of an event is the
\* year the header declares for its column, whatever the year of the parsed
\* date.
C15_OneEventPerRowAndResolvedColumn ==
    pc \in {"iter_events_done", "build_sql_done", "OverflowError"} =>
        ClaimEventsMatchPairs

\* The same for the runs in which iter_events returns.
ClaimReturnedEventsMatchPairs ==
    pc \in {"iter_events_done", "build_sql_done"} => ClaimEventsMatchPairs

(***************************************************************************)
(* The historical mode of main                                             *)
(***************************************************************************)

\* Files with fewer than two non-blank rows: one header row followed by
\* blank rows, and rows of blanks only.
OneHeaderFiles ==
    { << Blank9 \o <<T2024>>, Blank9, <<>> >>,
      << << <<" ">> >>, Blank9 \o <<T2024>>, << <<" ">>, <<>> >> >>,
      << << <<" ">>, <<" ", " ">> >>, <<>> >> }

\* The input files of main.
MainFiles ==
    HeaderlessFiles \cup OneHeaderFiles \cup ScenarioFiles \cup SparseFiles
    \cup FrequencyFiles

\* The text of an output file left by an earlier run.
OldScript == <<FixedLine("comment_source", 1), FixedLine("commit", 1)>>

\* args.output before the run: no directory, no file, or an earlier file.
OutputChoices ==
    { NoDirectory, PathState(TRUE, FALSE, <<>>),
      PathState(TRUE, TRUE, OldScript) }

InitMain ==
    /\ RestOfAudit
    /\ RestOfCommand
    /\ RestOfOrchestrator
    /\ RestOfModern
    /\ RestOfArgs
    /\ pc = "start"
    /\ input_exists \in BOOLEAN
    /\ csv_rows \in (IF input_exists THEN MainFiles ELSE {<<>>})
    /\ empresa_id \in {1, 2}
    /\ output \in OutputChoices
    /\ events = <<>>
    /\ lines = <<>>
    /\ RestOfDates
    /\ RestOfDatabase

\* args.output.parent.mkdir(parents=True, exist_ok=True), then
\* args.output.write_text(sql_output): the directory exists and the file
\* holds the script.
WriteOutput ==
    /\ pc = "build_sql_done"
    /\ output' = PathState(TRUE, TRUE, lines)
    /\ pc' = "main_done"
    /\ UNCHANGED <<audit_vars, command_vars, orchestrator_vars, modern_vars, argv, args, input_exists, cell, parts, fecha, base_date, months,
                   fecha_proxima, csv_rows, events, lines, empresa_id,
                   instrumentos, calibraciones, instrumento_id, stmt,
                   history>>

NextMain ==
    IterEvents \/ IterEventsRaises \/ BuildSql \/ BuildSqlRaises \/ WriteOutput

SpecMain == InitMain /\ [][NextMain]_vars

(***************************************************************************)
(* Claims about main (checked under SpecMain)                              *)
(***************************************************************************)

\* The number of rows with a cell that is not blank.
ClaimNonBlankRows(rows) ==
    Cardinality({i \in 1..Len(rows) :
                    \E j \in 1..Len(rows[i]) :
                        \E k \in 1..Len(rows[i][j]) : rows[i][j][k] # " "})

\* C17: in the historical mode of main a missing input file ends the run
\* with FileNotFoundError and an input with fewer than two non-blank rows
\* ends it with ValueError; nothing runs after the error; and the output
\* path changes in one step only, the write that follows the completion of
\* iter_events and build_sql, so a run that ends with an error leaves the
\* output file neither created nor modified.
C17_ErrorBeforeTheOnlyWrite ==
    [][ /\ pc \notin {"FileNotFoundError", "ValueError"}
        /\ (pc = "start" /\ ~input_exists) => pc' = "FileNotFoundError"
        /\ (pc = "start" /\ input_exists /\ ClaimNonBlankRows(csv_rows) < 2)
              => pc' = "ValueError"
        /\ output' # output =>
              /\ pc = "build_sql_done"
              /\ pc' = "main_done"
              /\ lines = build_sql(events, empresa_id)
              /\ events = iter_events(csv_rows).events
              /\ iter_events(csv_rows).error = ""
        /\ pc' \in {"FileNotFoundError", "ValueError"} => output' = output
      ]_vars

\* A run on a file with one non-blank row has ended with ValueError and the
\* earlier output file is as it was.
C17_Witness ==
    /\ pc = "ValueError"
    /\ input_exists
    /\ ClaimNonBlankRows(csv_rows) = 1
    /\ output = PathState(TRUE, TRUE, OldScript)

(***************************************************************************)
(* Claims about the script of build_sql (checked under SpecEvents)         *)
(***************************************************************************)

\* C18: build_sql given the empty list raises no error and returns a script
\* that is not empty and holds only the comment saying that no event was
\* detected: no START TRANSACTION, no lookup, no insert, no COMMIT.
C18_EmptyListGivesOnlyAComment ==
    /\ pc = "build_sql_OverflowError" => events # <<>>
    /\ (pc = "build_sql_done" /\ events = <<>>) =>
          /\ lines # <<>>
          /\ \A i \in 1..Len(lines) :
                lines[i].kind = "comment_no_events"

\* build_sql has returned for a file with headers and a data row that gave
\* no event.
C18_Witness ==
    /\ pc = "build_sql_done"
    /\ events = <<>>
    /\ Len(lines) = 1
    /\ DataRows(csv_rows) # <<>>

\* The lines of a script that are neither comments nor empty: its
\* statements, the insert being the INSERT INTO line and its SELECT.
ClaimIsComment(line) ==
    line.kind \in {"comment_no_events", "comment_source", "comment_empresa"}

ClaimIsStatementLine(line) == ~ClaimIsComment(line) /\ line.kind # "blank"

ClaimStatements(script) == SelectSeq(script, ClaimIsStatementLine)

\* The number of lines of a kind in a sequence of lines.
ClaimCount(script, kind) ==
    Cardinality({i \in 1..Len(script) : script[i].kind = kind})

\* The script has the shape the property states for the events: the
\* comment block, one START TRANSACTION, for each event in order its lookup
\* immediately followed by its guarded insert, one COMMIT at the end.
ClaimScriptShape(script, evs, empresa) ==
    LET stm == ClaimStatements(script)
        first == CHOOSE i \in 1..Len(script) : ClaimIsStatementLine(script[i])
    IN  /\ Len(stm) = 3 * Len(evs) + 2
        /\ first > 1
        /\ \A i \in 1..Len(script) : ClaimIsComment(script[i]) <=> i < first
        /\ stm[1].kind = "start_transaction"
        /\ stm[Len(stm)].kind = "commit"
        /\ \A k \in 1..Len(evs) :
              /\ stm[3 * k - 1].kind = "set_instrumento_id"
              /\ stm[3 * k - 1].codigo = sql_escape(evs[k].codigo)
              /\ stm[3 * k - 1].empresa_id = empresa
              /\ stm[3 * k].kind = "insert_into"
              /\ stm[3 * k + 1].kind = "select_guarded"
              /\ stm[3 * k + 1].fecha = isoformat(evs[k].fecha)
              /\ stm[3 * k + 1].periodo = evs[k].periodo
              /\ stm[3 * k + 1].empresa_id = empresa
        /\ ClaimCount(script, "start_transaction") = 1
        /\ ClaimCount(script, "commit") = 1
        /\ ClaimCount(script, "set_instrumento_id") = Len(evs)
        /\ ClaimCount(script, "select_guarded") = Len(evs)

\* C19: for every non-empty event list given to build_sql, the script it
\* gives has the comment block, then one START TRANSACTION, then for each
\* event in list order one lookup immediately followed by the event's
\* guarded insert, then one COMMIT as the last statement; lookups and
\* inserts are as many as the events.
C19_ScriptShapeForEveryEventList ==
    (pc \in {"build_sql_done", "build_sql_OverflowError"} /\ events # <<>>)
        => /\ lines # <<>>
           /\ ClaimScriptShape(lines, events, empresa_id)

\* The same for the lists for which build_sql returns.
ClaimReturnedScriptShape ==
    (pc = "build_sql_done" /\ events # <<>>)
        => ClaimScriptShape(lines, events, empresa_id)

\* The frequency of an event is present and positive.
ClaimPositiveFrequency(e) ==
    \E f \in e.frecuencia_meses : f.val > 0

\* The year of the date add_months is stated to give for the event is at
\* most 9999. An int held by years and months is wider than nine digits, so
\* its year is beyond 9999.
ClaimNextWithinMaxYear(e) ==
    \E f \in e.frecuencia_meses :
        ~f.wide /\ ClaimTarget(e.fecha, f.val).y <= 9999

\* The quoted ISO literal of the date add_months is stated to give.
ClaimNextLiteral(e) ==
    LET d == ClaimTarget(e.fecha, (CHOOSE f \in e.frecuencia_meses : TRUE).val)
    IN  <<"'">> \o ZeroPad(d.y, 4) \o <<"-">> \o ZeroPad(d.m, 2) \o <<"-">>
        \o ZeroPad(d.d, 2) \o <<"'">>

\* The next-due field of the insert of the k-th event of the script.
ClaimNextDueField(k) == ClaimStatements(lines)[3 * k + 1].fecha_proxima

\* C20 as stated: in the script of build_sql the next-due field of an
\* event's insert is the literal date add_months(event date, frequency)
\* whenever the frequency is present and positive, and is NULL exactly when
\* the frequency is absent, zero or negative.
C20_NextDueNullOnlyWithoutPositiveFrequency ==
    (pc = "build_sql_done" /\ events # <<>>) =>
        \A k \in 1..Len(events) :
            /\ ClaimPositiveFrequency(events[k])
                  => ClaimNextDueField(k) = ClaimNextLiteral(events[k])
            /\ ClaimNextDueField(k) = SqlNull
                  <=> ~ClaimPositiveFrequency(events[k])

\* C20 amended: the next-due field is that literal date whenever the
\* frequency is present and positive and the year of the date is at most
\* 9999, and is NULL exactly when the frequency is absent, zero or negative
\* or the year of the date is beyond 9999.
C20_NextDueNullAlsoBeyondMaxYear ==
    (pc = "build_sql_done" /\ events # <<>>) =>
        \A k \in 1..Len(events) :
            /\ ( /\ ClaimPositiveFrequency(events[k])
                 /\ ClaimNextWithinMaxYear(events[k]) )
                  => ClaimNextDueField(k) = ClaimNextLiteral(events[k])
            /\ ClaimNextDueField(k) = SqlNull
                  <=> \/ ~ClaimPositiveFrequency(events[k])
                      \/ ~ClaimNextWithinMaxYear(events[k])

\* A script with an insert whose next-due field is a date and an insert of
\* an event with a positive frequency whose next-due field is NULL.
C20_Witness ==
    /\ pc = "build_sql_done"
    /\ \E k \in 1..Len(events) :
          /\ ClaimPositiveFrequency(events[k])
          /\ ClaimNextDueField(k) = SqlNull
    /\ \E k \in 1..Len(events) :
          /\ ClaimPositiveFrequency(events[k])
          /\ ClaimNextDueField(k) # SqlNull

(***************************************************************************)
(* Claims about the literals of the script (checked under SpecSql)         *)
(***************************************************************************)

\* The single quotes of a text.
ClaimQuotes(t) == Cardinality({i \in 1..Len(t) : t[i] = "'"})

\* The text with each single quote written twice.
RECURSIVE ClaimDoubled(_)
ClaimDoubled(t) ==
    IF t = <<>> THEN <<>>
    ELSE IF Head(t) = "'" THEN <<"'", "'">> \o ClaimDoubled(Tail(t))
    ELSE <<Head(t)>> \o ClaimDoubled(Tail(t))

\* Every maximal run of single quotes of the text has an even length.
ClaimEvenRuns(t) ==
    \A i \in 1..Len(t) :
        (t[i] = "'" /\ (i = 1 \/ t[i - 1] # "'")) =>
            \E n \in 1..Len(t) :
                /\ n % 2 = 0
                /\ i + n - 1 <= Len(t)
                /\ \A j \in i..(i + n - 1) : t[j] = "'"
                /\ (i + n > Len(t) \/ t[i + n] # "'")

\* The text of observaciones before it is escaped, as build_sql joins it.
ClaimNotes(e) ==
    (IF e.requerimiento # <<>>
     THEN <<"R", "e", "q", "u", "e", "r", "i", "m", "i", "e", "n", "t", "o",
            ":", " ">> \o e.requerimiento \o <<".", " ">>
     ELSE <<>>)
    \o e.periodo_label \o <<" ">> \o IntToText(e.year) \o <<".", " ">>
    \o FuenteText

\* The literal holds the text with each of its quotes doubled exactly once.
ClaimEscapedOnce(literal, t) ==
    /\ literal = ClaimDoubled(t)
    /\ ClaimQuotes(literal) = 2 * ClaimQuotes(t)
    /\ ClaimEvenRuns(literal)

InputChoices == { {}, {_resolve_cert_path}, {<<"x", ".", "c", "s", "v">>} }

OutputOptionChoices ==
    { {}, {<<"o", "u", "t", ".", "s", "q", "l">>},
      {<<"d", "/">> \o OutputName},
      {<<"o", "l", "d", "_">> \o OutputName \o <<".", "b", "a", "k">>} }

ArgvChoices ==
    { Argv(e, c, b, h, i, o) :
        e \in {{}, {2}}, c \in {{}, {5}}, b \in BOOLEAN, h \in BOOLEAN,
        i \in InputChoices, o \in OutputOptionChoices }

\* The files found at args.input: an empty one, the scenario of two periods,
\* and one whose frequency cell is '1e11'.
ModeFiles ==
    { <<>>,
      <<ScenarioYearRow9, ScenarioHeaderRow9, ScenarioRow9>>,
      <<Blank9 \o <<T2024, T2024>>, Blank9 \o <<TPeriodo1, TPeriodo2>>,
        DataRow(<<"A">>, <<>>, <<"1", "e", "1", "1">>, TEne10, TFeb5, <<>>)>> }

InitMode ==
    /\ RestOfAudit
    /\ RestOfCommand
    /\ RestOfOrchestrator
    /\ RestOfModern
    /\ pc = "main"
    /\ argv \in ArgvChoices
    /\ args = parse_args(HistoricalArgv)
    /\ input_exists = TRUE
    /\ csv_rows \in ModeFiles
    /\ output = NoDirectory
    /\ empresa_id = 1
    /\ events = <<>>
    /\ lines = <<>>
    /\ RestOfDates
    /\ RestOfDatabase

\* args = parser.parse_args(argv)
ParseArgs ==
    /\ pc = "main"
    /\ args' = parse_args(argv)
    /\ pc' = "parsed"
    /\ UNCHANGED <<audit_vars, command_vars, orchestrator_vars, modern_vars, argv, input_exists, output, cell, parts, fecha, base_date,
                   months, fecha_proxima, csv_rows, events, lines, empresa_id,
                   instrumentos, calibraciones, instrumento_id, stmt,
                   history>>

\* The if branch of main: the historical conversion starts, with
\* args.empresa_id as the tenant.
HistoricalBranch ==
    /\ pc = "parsed"
    /\ HistoricalMode(args)
    /\ empresa_id' = args.empresa_id
    /\ pc' = "start"
    /\ UNCHANGED <<audit_vars, command_vars, orchestrator_vars, modern_vars, argv, args, input_exists, output, cell, parts, fecha,
                   base_date, months, fecha_proxima, csv_rows, events, lines,
                   instrumentos, calibraciones, instrumento_id, stmt,
                   history>>

\* The else branch of main: CertCalibrationGenerator(...) and
\* run_modern_generation_process(cliente_id), which returns True or False on
\* files outside this state, then sys.exit(0 if success else 1).
ModernBranch ==
    /\ pc = "parsed"
    /\ ~HistoricalMode(args)
    /\ \E returned \in BOOLEAN :
          pc' = IF returned THEN "modern_exit_0" ELSE "modern_exit_1"
    /\ UNCHANGED <<audit_vars, command_vars, orchestrator_vars, modern_vars, argv, args, input_exists, output, cell, parts, fecha,
                   base_date, months, fecha_proxima, csv_rows, events, lines,
                   empresa_id, instrumentos, calibraciones, instrumento_id,
                   stmt, history>>

NextMode ==
    \/ ParseArgs
    \/ HistoricalBranch
    \/ ModernBranch
    \/ IterEvents
    \/ IterEventsRaises
    \/ BuildSql
    \/ BuildSqlRaises
    \/ WriteOutput

SpecMode == InitMode /\ [][NextMode]_vars

(***************************************************************************)
(* Claims about the choice of mode (checked under SpecMode)                *)
(***************************************************************************)

\* The modern generation process was entered.
ClaimModern == pc \in {"modern_exit_0", "modern_exit_1"}

\* The historical conversion was entered.
ClaimHistorical == pc \notin {"main", "parsed", "modern_exit_0", "modern_exit_1"}

\* None of --historical, --input, --output was given.
ClaimOnlyModernOptions ==
    ~argv.historical /\ argv.input = {} /\ argv.output = {}

\* C22: main, invoked with no arguments or with only --empresa-id,
\* --cliente-id and/or --backup, runs the modern generation process; it runs
\* the historical conversion only when --historical, --input or --output is
\* given.
C22_ModernUnlessHistoricalOptionGiven ==
    pc \notin {"main", "parsed"} =>
        /\ ClaimOnlyModernOptions => ClaimModern
        /\ ClaimHistorical => ~ClaimOnlyModernOptions

\* What main does: the historical conversion runs exactly when --historical
\* is given, --input names another path than the default, or the path of
\* --output (given or default) contains the tested file name.
ClaimModeAsCoded ==
    pc \notin {"main", "parsed"} =>
        (ClaimHistorical <=>
            \/ argv.historical
            \/ argv.input \notin {{}, {_resolve_cert_path}}
            \/ argv.output = {}
            \/ \E o \in argv.output : Contains(o, OutputName))

(***************************************************************************)
(* Claims about the header rows (checked under SpecEvents)                 *)
(***************************************************************************)

\* The row has a cell that is not blank.
ClaimNotBlank(row) ==
    \E j \in 1..Len(row) : \E k \in 1..Len(row[j]) : row[j][k] # " "

\* The first row from index `from` on that is not fully blank.
ClaimIsFirstNotBlank(rows, i, from) ==
    /\ i \in from..Len(rows)
    /\ ClaimNotBlank(rows[i])
    /\ \A j \in from..(i - 1) : ~ClaimNotBlank(rows[j])

\* C23: iter_events takes as year header the first row that is not fully
\* blank and as label header the next row that is not fully blank, skipping
\* the fully blank rows before and between them; the rows after the label
\* header, and only they, are the data rows.
C23_HeadersAreFirstTwoNonBlankRows ==
    pc = "iter_events_done" =>
        \E y \in 1..Len(csv_rows) : \E h \in (y + 1)..Len(csv_rows) :
            /\ ClaimIsFirstNotBlank(csv_rows, y, 1)
            /\ ClaimIsFirstNotBlank(csv_rows, h, y + 1)
            /\ events = EventsOfRows(Slice(csv_rows, h + 1, Len(csv_rows)),
                                     period_columns(csv_rows[y], csv_rows[h])).events

\* A file with a blank row before the year header and one between the two
\* headers, and events returned from its data rows.
C23_Witness ==
    /\ pc = "iter_events_done"
    /\ events # <<>>
    /\ Len(csv_rows) >= 5
    /\ ~ClaimNotBlank(csv_rows[1])
    /\ ClaimNotBlank(csv_rows[2])
    /\ ~ClaimNotBlank(csv_rows[3])
    /\ ClaimNotBlank(csv_rows[4])

(***************************************************************************)
(* calculate_next_calibration_date as a state machine: each step is one    *)
(* call                                                                    *)
(***************************************************************************)

\* Instrument types: each key of the table, and types with capitals, with
\* spaces around, with a key inside a longer word, of no key, and empty.
InstrumentTypes ==
    {calibration_frequencies[i][1] : i \in 1..Len(calibration_frequencies)}
    \cup { <<" ", "C", "r", "o", "n", "o", "m", "e", "t", "r", "o", " ">>,
           <<"B", "A", "L", "A", "N", "Z", "A">>,
           <<"B", "a", "l", "a", "n", "z", "a", " ", "A", "n", "a", "l", "i", "t", "i", "c", "a">>,
           <<"x", "a", "u", "t", "o", "c", "l", "a", "v", "e", "x">>,
           <<"o", "t", "r", "o">>,
           <<>> }

\* Valid dates given as last_calibration.
LastCalibrations ==
    {b \in [kind : {"date"}, y : {2023, 2024, 9999}, m : 1..12,
            d : {10, 28, 29, 30, 31}] : date(b.y, b.m, b.d) = b}

InitModern ==
    /\ RestOfAudit
    /\ RestOfCommand
    /\ RestOfOrchestrator
    /\ pc = "idle"
    /\ last_calibration \in LastCalibrations
    /\ instrument_type \in InstrumentTypes
    /\ frequency_months = 0
    /\ next_date = None
    /\ RestOfArgs
    /\ RestOfDates
    /\ RestOfCsv
    /\ RestOfDatabase
    /\ RestOfFiles

\* One call of calculate_next_calibration_date.
CalculateNextCalibrationDate ==
    /\ pc = "idle"
    /\ frequency_months' = FrequencyOfNormalized(normalized_type(instrument_type))
    /\ next_date' = calculate_next_calibration_date(last_calibration, instrument_type)
    /\ pc' = "calculate_next_calibration_date"
    /\ UNCHANGED <<audit_vars, command_vars, orchestrator_vars, last_calibration, instrument_type, argv, args,
                   input_exists, output, cell, parts, fecha, base_date,
                   months, fecha_proxima, csv_rows, events, lines, empresa_id,
                   instrumentos, calibraciones, instrumento_id, stmt,
                   history>>

NextModern == CalculateNextCalibrationDate

SpecModern == InitModern /\ [][NextModern]_vars

(***************************************************************************)
(* Claims about the modern path (checked under SpecModern)                 *)
(***************************************************************************)

\* C24: the next-calibration date of the modern path is computed by exact
\* calendar months and never by a fixed day-count: it equals
\* add_months(last_calibration, f) for the frequency f selected for the
\* type, also when the day does not exist in the target month.
C24_NextDateIsAddMonths ==
    pc = "calculate_next_calibration_date" =>
        next_date = add_months(last_calibration, frequency_months)

\* What the code does: the two agree where the day of last_calibration
\* exists in the target month of a year up to 9999.
ClaimNextDateWhenDayExists ==
    ( /\ pc = "calculate_next_calibration_date"
      /\ add_months(last_calibration, frequency_months).kind = "date"
      /\ add_months(last_calibration, frequency_months).d = last_calibration.d ) =>
        next_date = add_months(last_calibration, frequency_months)

\* What the code does otherwise: thirty days per month of the frequency
\* are added to last_calibration.
ClaimNextDateByDayCount ==
    ( /\ pc = "calculate_next_calibration_date"
      /\ add_months(last_calibration, frequency_months).kind = "date"
      /\ add_months(last_calibration, frequency_months).d # last_calibration.d ) =>
        /\ next_date.kind = "date"
        /\ toordinal(next_date) = toordinal(last_calibration) + 30 * frequency_months

\* The type as the table is searched with it: lower-cased and trimmed.
ClaimType == Strip(Lower(instrument_type))

\* The entries of the table whose key is the type.
ClaimEntries ==
    {i \in 1..Len(calibration_frequencies) :
        calibration_frequencies[i][1] = ClaimType}

\* C25: a type that, lower-cased and trimmed, equals a key of the frequency
\* table is given the frequency of that key (6 for balanza_analitica,
\* micropipeta, termometro_digital and medidor_ph, 12 for balanza, pipeta and
\* termometro, 24 for cronometro), and a type matching no key gets 12.
C25_KeyGivesItsOwnFrequency ==
    pc = "calculate_next_calibration_date" =>
        /\ \A i \in ClaimEntries :
              frequency_months = calibration_frequencies[i][2]
        /\ (\A i \in 1..Len(calibration_frequencies) :
                ~Contains(ClaimType, calibration_frequencies[i][1])) =>
              frequency_months = 12

\* The keys that hold an earlier key of the table inside them.
ClaimShadowedKeys ==
    { <<"b", "a", "l", "a", "n", "z", "a", "_", "a", "n", "a", "l", "i", "t", "i", "c", "a">>,
      <<"m", "i", "c", "r", "o", "p", "i", "p", "e", "t", "a">>,
      <<"t", "e", "r", "m", "o", "m", "e", "t", "r", "o", "_", "d", "i", "g", "i", "t", "a", "l">> }

\* What the code does: a key gets its own frequency unless it holds an
\* earlier key inside it, and then it gets the 12 months of that key.
ClaimFrequencyOfKeys ==
    pc = "calculate_next_calibration_date" =>
        \A i \in ClaimEntries :
            frequency_months =
                IF ClaimType \in ClaimShadowedKeys THEN 12
                ELSE calibration_frequencies[i][2]

(***************************************************************************)
(* The orchestrator as a state machine: each step is one call of           *)
(* run_script or one report written                                        *)
(***************************************************************************)

\* The methods called on a new orchestrator.
EntryChoices ==
    {"run_full_client_portal_process", "run_client_generation_process"}

\* A Python bool as the text of its value.
BoolText(b) == IF b THEN "True" ELSE "False"

InitOrchestrator ==
    /\ RestOfAudit
    /\ RestOfCommand
    /\ entry \in EntryChoices
    /\ pc = IF entry = "run_full_client_portal_process"
            THEN "check_prerequisites" ELSE "generate_cert_calibrations"
    /\ scripts_exist \in [ScriptKeys -> BOOLEAN]
    /\ python_ok \in BOOLEAN
    /\ process_results = NoResults
    /\ calls = <<>>
    /\ reports = <<>>
    /\ success = TRUE
    /\ gen_success = TRUE
    /\ result = "none"
    /\ RestOfModern
    /\ RestOfArgs
    /\ RestOfDates
    /\ RestOfCsv
    /\ RestOfDatabase
    /\ RestOfFiles

\* The variables no step of the orchestrator changes.
orchestrator_frame ==
    <<entry, scripts_exist, python_ok, modern_vars, command_vars, audit_vars,
      argv, args, input_exists, output, cell, parts, fecha, base_date,
      months, fecha_proxima, csv_rows, events, lines, empresa_id,
      instrumentos, calibraciones, instrumento_id, stmt, history>>

\* What run_script(script_key, ...) leaves in the object for an outcome of
\* the child process.
RunScript(key, outcome) ==
    /\ process_results' =
          run_script_recorded(process_results, key,
                              scripts_exist[key], outcome)
    /\ calls' = run_script_called(calls, key, scripts_exist[key])

\* run_full_client_portal_process up to `success = True`: it returns False
\* when check_prerequisites does.
CheckPrerequisites ==
    /\ pc = "check_prerequisites"
    /\ IF check_prerequisites(python_ok, scripts_exist)
       THEN pc' = "setup_environment" /\ result' = result
       ELSE pc' = "returned" /\ result' = "False"
    /\ UNCHANGED <<orchestrator_frame, process_results, calls, reports,
                   success, gen_success>>

\* run_setup_process: run_script('setup_environment', ..., required=False);
\* it returns True whatever run_script returned.
RunSetupProcess ==
    /\ pc = "setup_environment"
    /\ \E outcome \in Outcomes : RunScript("setup_environment", outcome)
    /\ pc' = "validate_client_data"
    /\ UNCHANGED <<orchestrator_frame, reports, success, gen_success, result>>

\* run_client_validation_process:
\* run_script('validate_client_data', args, required=True), and success is
\* set to False when it returned False.
RunClientValidationProcess ==
    /\ pc = "validate_client_data"
    /\ \E outcome \in Outcomes :
          /\ RunScript("validate_client_data", outcome)
          /\ success' =
                (success /\ run_script_returned(
                                TRUE, scripts_exist["validate_client_data"],
                                outcome))
    /\ pc' = "generate_cert_calibrations"
    /\ UNCHANGED <<orchestrator_frame, reports, gen_success, result>>

\* run_client_generation_process, first script: required=True.
GenerateCertCalibrations ==
    /\ pc = "generate_cert_calibrations"
    /\ \E outcome \in Outcomes :
          /\ RunScript("generate_cert_calibrations", outcome)
          /\ gen_success' =
                run_script_returned(
                    TRUE, scripts_exist["generate_cert_calibrations"], outcome)
    /\ pc' = "generate_insert_instrumentos"
    /\ UNCHANGED <<orchestrator_frame, reports, success, result>>

\* run_client_generation_process, second script: required=False, and
\* success is set to False when run_script returned False.
GenerateInsertInstrumentos ==
    /\ pc = "generate_insert_instrumentos"
    /\ \E outcome \in Outcomes :
          /\ RunScript("generate_insert_instrumentos", outcome)
          /\ gen_success' =
                (gen_success /\ run_script_returned(
                                    FALSE,
                                    scripts_exist["generate_insert_instrumentos"],
                                    outcome))
    /\ pc' = "generate_plan_riesgos"
    /\ UNCHANGED <<orchestrator_frame, reports, success, result>>

\* run_client_generation_process, third script and `return success`; in
\* run_full_client_portal_process the caller then sets its own success to
\* False when the value returned is False.
GeneratePlanRiesgos ==
    /\ pc = "generate_plan_riesgos"
    /\ \E outcome \in Outcomes : RunScript("generate_plan_riesgos", outcome)
    /\ IF entry = "run_client_generation_process"
       THEN /\ result' = BoolText(gen_success)
            /\ pc' = "returned"
            /\ success' = success
       ELSE /\ success' = (success /\ gen_success)
            /\ pc' = "client_audit_report"
            /\ result' = result
    /\ UNCHANGED <<orchestrator_frame, reports, gen_success>>

\* run_client_reporting_process:
\* run_script('client_audit_report', [], required=True).
RunClientReportingProcess ==
    /\ pc = "client_audit_report"
    /\ \E outcome \in Outcomes :
          /\ RunScript("client_audit_report", outcome)
          /\ success' =
                (success /\ run_script_returned(
                                TRUE, scripts_exist["client_audit_report"],
                                outcome))
    /\ pc' = "generate_client_portal_summary"
    /\ UNCHANGED <<orchestrator_frame, reports, gen_success, result>>

\* generate_client_portal_summary writes client_portal_summary_<time>.md.
GenerateClientPortalSummary ==
    /\ pc = "generate_client_portal_summary"
    /\ reports' = Append(reports, "client_portal_summary")
    /\ pc' = "save_process_log"
    /\ UNCHANGED <<orchestrator_frame, process_results, calls, success,
                   gen_success, result>>

\* save_process_log writes client_portal_log_<time>.json; then
\* return success and readiness['overall_status'] in
\* ['ready', 'ready_with_warnings'].
SaveProcessLog ==
    /\ pc = "save_process_log"
    /\ reports' = Append(reports, "client_portal_log")
    /\ result' = BoolText(success /\ overall_status(process_results)
                                        \in {"ready", "ready_with_warnings"})
    /\ pc' = "returned"
    /\ UNCHANGED <<orchestrator_frame, process_results, calls, success,
                   gen_success>>

NextOrchestrator ==
    \/ CheckPrerequisites
    \/ RunSetupProcess
    \/ RunClientValidationProcess
    \/ GenerateCertCalibrations
    \/ GenerateInsertInstrumentos
    \/ GeneratePlanRiesgos
    \/ RunClientReportingProcess
    \/ GenerateClientPortalSummary
    \/ SaveProcessLog

SpecOrchestrator == InitOrchestrator /\ [][NextOrchestrator]_vars

(***************************************************************************)
(* Claims about the orchestrator (checked under SpecOrchestrator)          *)
(***************************************************************************)

\* The order of the scripts in the full process.
ClaimOrder ==
    <<"setup_environment", "validate_client_data",
      "generate_cert_calibrations", "generate_insert_instrumentos",
      "generate_plan_riesgos", "client_audit_report">>

\* The two reports in the order they are written.
ClaimReports == <<"client_portal_summary", "client_portal_log">>

\* Python is recent enough and no script is missing.
ClaimPrerequisites == python_ok /\ \A k \in ScriptKeys : scripts_exist[k]

\* The script was not found, or it was run and did not succeed.
ClaimFailed(k) == ~scripts_exist[k] \/ process_results[k] \in {"error", "exception"}

\* s is the beginning of t.
ClaimIsPrefix(s, t) == Len(s) <= Len(t) /\ s = SubSeq(t, 1, Len(s))

\* C26: in run_full_client_portal_process, once check_prerequisites has
\* passed, the scripts run in the order setup, validation, cert
\* calibrations, insert instrumentos, plan riesgos, reporting, and after
\* them the summary report and the process log are always written, whatever
\* scripts failed; when prerequisites fail no script is run and no report is
\* written.
C26_FixedOrderThenReports ==
    entry = "run_full_client_portal_process" =>
        /\ ClaimIsPrefix(calls, ClaimOrder)
        /\ ClaimIsPrefix(reports, ClaimReports)
        /\ reports # <<>> => calls = ClaimOrder
        /\ (pc = "returned" /\ ClaimPrerequisites) =>
              calls = ClaimOrder /\ reports = ClaimReports
        /\ ~ClaimPrerequisites => calls = <<>> /\ reports = <<>>

\* A finished full process in which the validation and two generation
\* scripts failed, with both reports written.
C26_Witness ==
    /\ entry = "run_full_client_portal_process"
    /\ pc = "returned"
    /\ process_results["validate_client_data"] = "error"
    /\ process_results["generate_cert_calibrations"] = "exception"
    /\ process_results["generate_plan_riesgos"] = "error"
    /\ calls = ClaimOrder
    /\ reports = ClaimReports

\* C27: run_full_client_portal_process returns True exactly when
\* prerequisites passed and each of the three critical scripts was run and
\* recorded 'success'; failures of the other three scripts do not make it
\* return False.
C27_TrueIffCriticalScriptsSucceeded ==
    (entry = "run_full_client_portal_process" /\ pc = "returned") =>
        (result = "True" <=>
            /\ ClaimPrerequisites
            /\ \A k \in CriticalScripts :
                  /\ \E i \in 1..Len(calls) : calls[i] = k
                  /\ process_results[k] = "success")

\* A full process that returned True although the three other scripts
\* failed.
C27_Witness ==
    /\ entry = "run_full_client_portal_process"
    /\ pc = "returned"
    /\ result = "True"
    /\ process_results["setup_environment"] = "error"
    /\ process_results["generate_insert_instrumentos"] = "exception"
    /\ process_results["generate_plan_riesgos"] = "error"

\* C28: run_client_generation_process returns False when
\* generate_insert_instrumentos fails (non-zero exit, exception or missing
\* script), as it does when generate_cert_calibrations fails; only a failure
\* of generate_plan_riesgos leaves the result True.
C28_FalseWhenInsertInstrumentosFails ==
    (entry = "run_client_generation_process" /\ pc = "returned") =>
        (result = "False" <=>
            \/ ClaimFailed("generate_cert_calibrations")
            \/ ClaimFailed("generate_insert_instrumentos"))

\* What the code does: the value returned depends on
\* generate_cert_calibrations alone.
ClaimGenerationResultAsCoded ==
    (entry = "run_client_generation_process" /\ pc = "returned") =>
        (result = "False" <=> ClaimFailed("generate_cert_calibrations"))

(***************************************************************************)
(* run_script as a state machine: the command line is built, then the      *)
(* launched script parses it                                               *)
(***************************************************************************)

InitCommand ==
    /\ RestOfAudit
    /\ pc = "run_script"
    /\ script_key \in ScriptKeys
    /\ direct \in BOOLEAN
    /\ backup \in BOOLEAN
    /\ self_empresa_id \in {1, 2, 15}
    /\ cmd = <<>>
    /\ child = "none"
    /\ RestOfOrchestrator
    /\ RestOfModern
    /\ RestOfArgs
    /\ RestOfDates
    /\ RestOfCsv
    /\ RestOfDatabase
    /\ RestOfFiles

\* run_script up to subprocess.run: cmd is built.
BuildCommand ==
    /\ pc = "run_script"
    /\ cmd' = BuildCmd(script_key, CallerArgs(script_key, direct, backup),
                       self_empresa_id)
    /\ pc' = "subprocess_run"
    /\ UNCHANGED <<audit_vars, script_key, direct, backup, self_empresa_id, child,
                   orchestrator_vars, modern_vars, argv, args, input_exists,
                   output, cell, parts, fecha, base_date, months,
                   fecha_proxima, csv_rows, events, lines, empresa_id,
                   instrumentos, calibraciones, instrumento_id, stmt,
                   history>>

\* The launched script calls parser.parse_args() on the command line.
ChildParsesArguments ==
    /\ pc = "subprocess_run"
    /\ child' \in ChildOutcomes(script_key, cmd)
    /\ pc' = "child_parsed"
    /\ UNCHANGED <<audit_vars, script_key, direct, backup, self_empresa_id, cmd,
                   orchestrator_vars, modern_vars, argv, args, input_exists,
                   output, cell, parts, fecha, base_date, months,
                   fecha_proxima, csv_rows, events, lines, empresa_id,
                   instrumentos, calibraciones, instrumento_id, stmt,
                   history>>

NextCommand == BuildCommand \/ ChildParsesArguments

SpecCommand == InitCommand /\ [][NextCommand]_vars

(***************************************************************************)
(* Claims about the command lines (checked under SpecCommand)              *)
(***************************************************************************)

\* C29: every command line run_script builds is accepted by the argument
\* parser of the script it launches: no step fails because of an
\* unrecognized argument in data_validator.py, audit_report_generator.py or
\* generate_cert_calibrations.py.
C29_EveryCommandLineIsAccepted ==
    (pc = "child_parsed" /\ script_key \in DOMAIN DeclaredOptions) =>
        child = "accepted"

\* What the code does: the command lines for audit_report_generator.py and
\* generate_cert_calibrations.py are accepted, every command line for
\* data_validator.py is refused.
ClaimAcceptedAsCoded ==
    (pc = "child_parsed" /\ script_key \in DOMAIN DeclaredOptions) =>
        (child = "accepted" <=> script_key # "validate_client_data")

(***************************************************************************)
(* ClientAuditReportGenerator.run as a state machine                       *)
(***************************************************************************)

MaxInstrumentRows == 2

\* The codes of the rows of normalize_instrumentos.csv: none, two with a
\* known prefix and one without '-'.
CodigoChoices ==
    {<<>>, <<"S", "B", "L", "-", "1">>, <<"l", "a", "b", "-", "7">>,
     <<"X", "Y", "9">>}

\* A row of the file: its code and the compliance state the calibration
\* data give it.
InstrumentRowChoices == [codigo : CodigoChoices, estado : AllStates]

RECURSIVE RowsOfLength(_)
RowsOfLength(n) ==
    IF n = 0 THEN {<<>>}
    ELSE {Append(r, x) : r \in RowsOfLength(n - 1), x \in InstrumentRowChoices}

\* normalize_instrumentos.csv: missing, or present with up to
\* MaxInstrumentRows rows.
InstrumentosFileChoices ==
    {[exists |-> FALSE, rows |-> <<>>]}
    \cup {[exists |-> TRUE, rows |-> r] :
            r \in UNION {RowsOfLength(n) : n \in 0..MaxInstrumentRows}}

audit_frame ==
    <<command_vars, orchestrator_vars, modern_vars, argv, args, input_exists,
      output, cell, parts, fecha, base_date, months, fecha_proxima, csv_rows,
      events, lines, empresa_id, instrumentos, calibraciones, instrumento_id,
      stmt, history>>

InitAudit ==
    /\ pc = "run"
    /\ instrumentos_file \in InstrumentosFileChoices
    /\ self_instrumentos = <<>>
    /\ client_instrument_status = <<>>
    /\ summary = NoSummary
    /\ audit_files = {}
    /\ RestOfCommand
    /\ RestOfOrchestrator
    /\ RestOfModern
    /\ RestOfArgs
    /\ RestOfDates
    /\ RestOfCsv
    /\ RestOfDatabase
    /\ RestOfFiles

\* run: self.load_data()
LoadData ==
    /\ pc = "run"
    /\ self_instrumentos' = load_data(instrumentos_file)
    /\ pc' = "load_data"
    /\ UNCHANGED <<instrumentos_file, client_instrument_status, summary,
                   audit_files, audit_frame>>

\* run: self.analyze_client_instrument_status()
AnalyzeClientInstrumentStatus ==
    /\ pc = "load_data"
    /\ client_instrument_status' =
          analyze_client_instrument_status(self_instrumentos)
    /\ pc' = "analyze_client_instrument_status"
    /\ UNCHANGED <<instrumentos_file, self_instrumentos, summary, audit_files,
                   audit_frame>>

\* generate_reports up to the end of generate_client_summary_report: the
\* file is opened for writing, and the error of the division leaves run.
GenerateClientSummaryReport ==
    /\ pc = "analyze_client_instrument_status"
    /\ summary' = generate_client_summary_report(
                     calculate_client_metrics(client_instrument_status)).file
    /\ audit_files' = audit_files \cup {"resumen_clientes"}
    /\ pc' = IF generate_client_summary_report(
                   calculate_client_metrics(client_instrument_status)).error = ""
             THEN "generate_client_summary_report"
             ELSE "raised"
    /\ UNCHANGED <<instrumentos_file, self_instrumentos,
                   client_instrument_status, audit_frame>>

\* generate_reports: generate_client_detailed_csv, after which run returns.
GenerateClientDetailedCsv ==
    /\ pc = "generate_client_summary_report"
    /\ audit_files' = audit_files \cup {"detalle_instrumentos_clientes"}
    /\ pc' = "returned"
    /\ UNCHANGED <<instrumentos_file, self_instrumentos,
                   client_instrument_status, summary, audit_frame>>

NextAudit ==
    \/ LoadData
    \/ AnalyzeClientInstrumentStatus
    \/ GenerateClientSummaryReport
    \/ GenerateClientDetailedCsv

SpecAudit == InitAudit /\ [][NextAudit]_vars

(***************************************************************************)
(* Claims about the audit report generator (checked under SpecAudit)       *)
(***************************************************************************)

\* A run has ended with no instrument data: no client has any instrument.
ClaimNoInstrumentData ==
    /\ pc \in {"raised", "returned"}
    /\ client_instrument_status = <<>>

\* C30: ClientAuditReportGenerator.run completes without raising and writes
\* the summary report also when no instrument data is available
\* (normalize_instrumentos.csv missing or empty, so that no client has any
\* instrument); the report shows zero clients and zero instruments.
C30_RunCompletesWithoutInstrumentData ==
    ClaimNoInstrumentData =>
        /\ pc = "returned"
        /\ summary.complete
        /\ summary.total_clientes = 0
        /\ summary.total_instrumentos = 0

\* What the code does with no instrument data: run raises ZeroDivisionError
\* after the three totals of the summary report, and the detailed CSV is
\* never written.
ClaimRaisesWithoutInstrumentData ==
    ClaimNoInstrumentData =>
        /\ pc = "raised"
        /\ summary = InterruptedSummary
        /\ audit_files = {"resumen_clientes"}

\* With at least one instrument carrying a code, run returns with both
\* reports written and the totals of the analysed instruments.
ClaimReturnsWithInstrumentData ==
    (/\ pc \in {"raised", "returned"}
     /\ client_instrument_status # <<>>) =>
        /\ pc = "returned"
        /\ summary.complete
        /\ summary.total_instrumentos = Len(client_instrument_status)
        /\ summary.total_clientes >= 1
        /\ audit_files = {"resumen_clientes", "detalle_instrumentos_clientes"}

\* A run with the instrument file missing has ended.
ClaimMissingFileRunEnded ==
    /\ pc \in {"raised", "returned"}
    /\ ~instrumentos_file.exists

====
